---- MODULE Spec2Model ----
(***************************************************************************)
(* Position engine of the T0 collaboration tool (src/src/position.py):     *)
(* RealPosition, VirtualPosition, AccountPosition and PositionManager; and *)
(* its ledger roller (src/src/ledger_rolling.py): LedgerRollingCalculator. *)
(*                                                                         *)
(* Prices are Python floats in the source.  They are modelled as exact     *)
(* rationals <<numerator, denominator>> in lowest terms with a positive    *)
(* denominator; the inputs are integer prices.  A division by a zero       *)
(* float raises ZeroDivisionError in Python and is modelled as a raise.    *)
(* Wall-clock stamps that no operation reads back (update_time, open_time, *)
(* close_time) and the descriptive strings stock_name and market_id are    *)
(* left out; the clock reading that is formatted into a position_id is an  *)
(* input of the T0 entry points, and the date the ledger roller reads off  *)
(* the clock when it is given no trade_date is an input of its calls.      *)
(* Ledger values, factors and amounts are floats in the source; the inputs *)
(* are integers, on which the roller's products and sums are exact.        *)
(***************************************************************************)
EXTENDS Integers, Sequences, FiniteSets, TLC

VARIABLES accounts, vp, last, nops, calculator, journal, round_trip, threads

vars == <<accounts, vp, last, nops, calculator, journal, round_trip, threads>>

(***************************************************************************)
(* Bounds of the exploration.                                              *)
(***************************************************************************)
\* calls made in one explored session
MaxOps == 2

\* "A2" is an account the manager never learns of
Accounts == {"A1", "A2"}
Stocks == {"S1"}
\* volume arguments: negative, zero, part of a holding, a whole holding
Volumes == {0 - 1, 0, 1, 2}
\* volumes a loaded holding reports
HeldVolumes == {0, 1, 2}
Prices == {0, 1}
\* readings of the clock as strftime('%H%M%S%f') prints them
Ticks == {0, 1}
T0Types == {"SELL_FIRST", "BUY_FIRST"}
\* position feeds: empty, one record, records of two accounts, two records
\* of one holding; a record is <<account_id, total, available, frozen>>
FeedRows ==
    {<<>>, <<<<"A1", 2, 1, 1>>>>, <<<<"A1", 2, 1, 1>>, <<"A2", 1, 1, 0>>>>,
     <<<<"A1", 2, 1, 1>>, <<"A1", 1, 0, 0>>>>}

\* the holding of a trading day, and the price its T0 calls buy back at
DayKeyed == {<<"A1", "S1">>}
BuyBackPrices == {1}
\* the one reading of the clock on that day: every T0 record takes the place
\* of the one before
DayTicks == {0}

\* the instruments of a manager with several accounts and holdings
ManagerStocks == {"S1", "S2"}

\* two concurrent callers, the volumes of their calls and the price of their
\* T0 calls
ThreadIds == {"t1", "t2"}
ThreadVolumes == {1, 2}
ThreadPrices == {1}

\* calls made on a ledger calculator in one explored session
MaxLedgerOps == 3

\* (account_id, stock_code) arguments of the calls on one ledger: the ledger's
\* own, and the two a roll must refuse
ChainKeyed == {<<"A", "C">>}
ChainPairs == ChainKeyed \cup {<<"", "C">>, <<"A", "">>}
\* (account_id, stock_code) arguments of ledgers kept side by side; the first
\* two are different pairs
KeyPairs == {<<"A", "B_C">>, <<"A_B", "C">>, <<"A", "C">>}
\* (account_id, stock_code) arguments of the queries: the ledger's own and
\* one nothing was ever stored for
AskedPairs == ChainKeyed \cup {<<"A", "X">>}
\* adjustment_factor arguments: absent, or given as 0
Factors == {<<>>, <<0>>}
\* events arguments: absent, or one event of factor 2
EventLists == {<<>>, <<[stock_code |-> "C", adjustment_factor |-> 2]>>}
\* arguments of the rolls of a ledger with stored events: adjustment_factor
\* absent, 0 or 3; events absent, one event, or two events of factors 2 and 3
EventFactors == {<<>>, <<0>>, <<3>>}
PassedEvents ==
    {<<>>, <<[stock_code |-> "C", adjustment_factor |-> 2]>>,
     <<[stock_code |-> "C", adjustment_factor |-> 2],
       [stock_code |-> "C", adjustment_factor |-> 3]>>}
\* events stored with add_adjustment_event
StoredEvents == {[stock_code |-> "C", adjustment_factor |-> 5]}
\* events stored beside a ledger that is also asked about: two of one
\* instrument and one of another
BookedEvents ==
    {[stock_code |-> "C", adjustment_factor |-> 5],
     [stock_code |-> "C", adjustment_factor |-> 7],
     [stock_code |-> "D", adjustment_factor |-> 5]}
Amounts == {0 - 1, 0, 1}
Seeds == {0, 1}
KeyAmounts == {1, 2}
KeySeeds == {1}
\* arguments of the two adjustment calculations
Dividends == {0 - 1, 0, 1}
Shares == {0 - 1, 0, 1, 2}
Specials == {0 - 1, 0, 1}
Ledgers == {0, 1}
Ratios == {0, 1}
SplitRatios == {0, 1, 2}
SharePrices == {0, 1, 2}
\* trade_date arguments; "" is the default, which reads the clock
RollDates == {"", "20240102"}
SeedDates == {"20240101"}
\* readings of the clock as strftime('%Y%m%d') prints them
Todays == {"20240103"}

(***************************************************************************)
(* Exact arithmetic on prices.                                             *)
(***************************************************************************)
Abs(x) == IF x < 0 THEN 0 - x ELSE x

RECURSIVE GCD(_, _)
GCD(a, b) == IF b = 0 THEN a ELSE GCD(b, a % b)

\* n / d in lowest terms, d # 0
Rat(n, d) ==
    LET g == GCD(Abs(n), Abs(d))
        sgn == IF d < 0 THEN 0 - 1 ELSE 1
    IN  <<(sgn * n) \div g, (sgn * d) \div g>>

RatOfInt(n) == <<n, 1>>

RatMul(x, y) == Rat(x[1] * y[1], x[2] * y[2])

\* x / y, y # 0
RatDiv(x, y) == Rat(x[1] * y[2], x[2] * y[1])

EmptyMap == [x \in {} |-> TRUE]

\* dict[k] = v
Put(f, k, v) == (k :> v) @@ f

(***************************************************************************)
(* RealPosition                                                            *)
(***************************************************************************)
RealPosition(total, available, frozen, yesterday, today, cost, current, status) ==
    [total_volume |-> total, available_volume |-> available,
     frozen_volume |-> frozen, yesterday_volume |-> yesterday,
     today_volume |-> today, cost_price |-> cost, current_price |-> current,
     status |-> status]

\* total_volume * cost_price, as a rational
cost_amount(pos) ==
    Rat(pos.total_volume * pos.cost_price[1], pos.cost_price[2])

\* sellable_volume that overlooks the FROZEN status
sellable_volume_IgnoresStatus(pos) == pos.available_volume

sellable_volume(pos) ==
    IF pos.status = "FROZEN" THEN 0 ELSE pos.available_volume

RealPosition_update_price(pos, price) ==
    [pos EXCEPT !.current_price = price]

\* freeze that lets a volume of zero through
freeze_AcceptsZero(pos, volume) ==
    IF volume < 0 \/ volume > pos.available_volume
    THEN [ok |-> FALSE, pos |-> pos]
    ELSE [ok |-> TRUE,
          pos |-> [pos EXCEPT !.available_volume = @ - volume,
                              !.frozen_volume = @ + volume]]

freeze(pos, volume) ==
    IF volume <= 0 \/ volume > pos.available_volume
    THEN [ok |-> FALSE, pos |-> pos]
    ELSE [ok |-> TRUE,
          pos |-> [pos EXCEPT !.available_volume = @ - volume,
                              !.frozen_volume = @ + volume]]

\* unfreeze that releases the shares without making them available
unfreeze_DropsShares(pos, volume) ==
    IF volume <= 0 \/ volume > pos.frozen_volume
    THEN [ok |-> FALSE, pos |-> pos]
    ELSE [ok |-> TRUE, pos |-> [pos EXCEPT !.frozen_volume = @ - volume]]

unfreeze(pos, volume) ==
    IF volume <= 0 \/ volume > pos.frozen_volume
    THEN [ok |-> FALSE, pos |-> pos]
    ELSE [ok |-> TRUE,
          pos |-> [pos EXCEPT !.frozen_volume = @ - volume,
                              !.available_volume = @ + volume]]

\* reduce without the upper test on available_volume
reduce_NoAvailableTest(pos, volume) ==
    IF volume <= 0
    THEN [ok |-> FALSE, pos |-> pos]
    ELSE [ok |-> TRUE,
          pos |-> [pos EXCEPT !.total_volume = @ - volume,
                              !.available_volume = @ - volume]]

\* reduce that turns down a FROZEN position
reduce_RefusesFrozen(pos, volume) ==
    IF volume <= 0 \/ volume > pos.available_volume \/ pos.status = "FROZEN"
    THEN [ok |-> FALSE, pos |-> pos]
    ELSE [ok |-> TRUE,
          pos |-> [pos EXCEPT !.total_volume = @ - volume,
                              !.available_volume = @ - volume]]

reduce(pos, volume) ==
    IF volume <= 0 \/ volume > pos.available_volume
    THEN [ok |-> FALSE, pos |-> pos]
    ELSE [ok |-> TRUE,
          pos |-> [pos EXCEPT !.total_volume = @ - volume,
                              !.available_volume = @ - volume]]

\* increase that books the purchase in today_volume only
increase_NoTotal(pos, volume, price) ==
    IF volume <= 0
    THEN [ok |-> FALSE, pos |-> pos]
    ELSE [ok |-> TRUE, pos |-> [pos EXCEPT !.today_volume = @ + volume]]

\* increase that makes the bought shares available at once
increase_MakesAvailable(pos, volume, price) ==
    IF volume <= 0
    THEN [ok |-> FALSE, pos |-> pos]
    ELSE LET old_cost_amount == cost_amount(pos)
             new_cost == volume * price
             total == pos.total_volume + volume
             sum == Rat(old_cost_amount[1] + new_cost * old_cost_amount[2],
                        old_cost_amount[2])
         IN  [ok |-> TRUE,
              pos |-> [pos EXCEPT
                         !.total_volume = total,
                         !.available_volume = @ + volume,
                         !.today_volume = @ + volume,
                         !.cost_price = IF total > 0
                                        THEN Rat(sum[1], sum[2] * total)
                                        ELSE @]]

increase(pos, volume, price) ==
    IF volume <= 0
    THEN [ok |-> FALSE, pos |-> pos]
    ELSE LET old_cost_amount == cost_amount(pos)
             new_cost == volume * price
             total == pos.total_volume + volume
             sum == Rat(old_cost_amount[1] + new_cost * old_cost_amount[2],
                        old_cost_amount[2])
         IN  [ok |-> TRUE,
              pos |-> [pos EXCEPT
                         !.total_volume = total,
                         !.today_volume = @ + volume,
                         !.cost_price = IF total > 0
                                        THEN Rat(sum[1], sum[2] * total)
                                        ELSE @]]

(***************************************************************************)
(* VirtualPosition                                                         *)
(***************************************************************************)
\* the dataclass defaults
VirtualPosition(stock_code, account_id, position_id) ==
    [stock_code |-> stock_code, account_id |-> account_id,
     position_id |-> position_id, t0_type |-> "SELL_FIRST",
     open_volume |-> 0, open_price |-> 0,
     closed_volume |-> 0, close_price |-> 0,
     profit_loss |-> 0, profit_rate |-> RatOfInt(0),
     status |-> "ACTIVE"]

remaining_volume(v) == v.open_volume - v.closed_volume

is_closed(v) == remaining_volume(v) <= 0

open(v, volume, price, t0_type) ==
    [v EXCEPT !.open_volume = volume, !.open_price = price,
              !.t0_type = t0_type, !.status = "ACTIVE"]

\* The result carries the object as the call leaves it, the returned profit
\* and whether the call raised ZeroDivisionError (line 287, reached after
\* profit_loss, closed_volume and close_price were already assigned).
\* close_partial that notes the price of a close it turns down
close_partial_NotesPrice(v, volume, price) ==
    IF volume <= 0 \/ volume > remaining_volume(v)
    THEN [vp |-> [v EXCEPT !.close_price = price], profit |-> 0,
          raised |-> FALSE]
    ELSE LET profit == IF v.t0_type = "SELL_FIRST"
                       THEN (v.open_price - price) * volume
                       ELSE (price - v.open_price) * volume
             v1 == [v EXCEPT !.profit_loss = @ + profit,
                             !.closed_volume = @ + volume,
                             !.close_price = price]
         IN  IF v1.open_volume > 0 /\ v1.open_price * v1.open_volume = 0
             THEN [vp |-> v1, profit |-> profit, raised |-> TRUE]
             ELSE LET v2 == IF v1.open_volume > 0
                            THEN [v1 EXCEPT !.profit_rate =
                                     Rat(v1.profit_loss * 100,
                                         v1.open_price * v1.open_volume)]
                            ELSE v1
                      v3 == IF is_closed(v2)
                            THEN [v2 EXCEPT !.status = "CLOSED"]
                            ELSE v2
                  IN  [vp |-> v3, profit |-> profit, raised |-> FALSE]

close_partial(v, volume, price) ==
    IF volume <= 0 \/ volume > remaining_volume(v)
    THEN [vp |-> v, profit |-> 0, raised |-> FALSE]
    ELSE LET profit == IF v.t0_type = "SELL_FIRST"
                       THEN (v.open_price - price) * volume
                       ELSE (price - v.open_price) * volume
             v1 == [v EXCEPT !.profit_loss = @ + profit,
                             !.closed_volume = @ + volume,
                             !.close_price = price]
         IN  IF v1.open_volume > 0 /\ v1.open_price * v1.open_volume = 0
             THEN [vp |-> v1, profit |-> profit, raised |-> TRUE]
             ELSE LET v2 == IF v1.open_volume > 0
                            THEN [v1 EXCEPT !.profit_rate =
                                     Rat(v1.profit_loss * 100,
                                         v1.open_price * v1.open_volume)]
                            ELSE v1
                      v3 == IF is_closed(v2)
                            THEN [v2 EXCEPT !.status = "CLOSED"]
                            ELSE v2
                  IN  [vp |-> v3, profit |-> profit, raised |-> FALSE]

close_all(v, price) == close_partial(v, remaining_volume(v), price)

(***************************************************************************)
(* What a call hands back to its caller.  kind is "None", "Bool", "VP"     *)
(* (a VirtualPosition, named by its position_id), "Account", "Float" (a    *)
(* profit), "Int" (a count), "State" (a LedgerRollingState), "Nothing" (a   *)
(* procedure) or the name of the exception the call raised.                *)
(***************************************************************************)
NoId == <<>>

Returned(kind, ok, id, num) == [kind |-> kind, ok |-> ok, id |-> id, num |-> num]

RetNone == Returned("None", FALSE, NoId, 0)
RetNothing == Returned("Nothing", TRUE, NoId, 0)
RetRaised == Returned("ZeroDivisionError", FALSE, NoId, 0)
RetBool(b) == Returned("Bool", b, NoId, 0)
RetVP(id) == Returned("VP", TRUE, id, 0)
RetFloat(x) == Returned("Float", TRUE, NoId, x)
RetAccount == Returned("Account", TRUE, NoId, 0)
RetInt(n) == Returned("Int", TRUE, NoId, n)
RetTypeError == Returned("TypeError", FALSE, NoId, 0)
\* an object handed back: an AccountPosition or a RealPosition
RetObject(kind, x) == Returned(kind, TRUE, NoId, x)

(***************************************************************************)
(* AccountPosition and PositionManager                                     *)
(***************************************************************************)
AccountPosition == [positions |-> EmptyMap, virtual_positions |-> EmptyMap]

add_position(account, stock_code, position) ==
    [account EXCEPT !.positions = Put(@, stock_code, position)]

add_virtual_position(account, v) ==
    [account EXCEPT !.virtual_positions = Put(@, v.position_id, v)]

get_or_create_account(accts, account_id) ==
    IF account_id \notin DOMAIN accts
    THEN Put(accts, account_id, AccountPosition)
    ELSE accts

\* the position or "None"; callers test HasPosition first
HasPosition(accts, account_id, stock_code) ==
    /\ account_id \in DOMAIN accts
    /\ stock_code \in DOMAIN accts[account_id].positions

get_position(accts, account_id, stock_code) ==
    accts[account_id].positions[stock_code]

\* self.accounts.get(account_id)
get_account(accts, account_id) ==
    [accounts |-> accts,
     ret |-> IF account_id \in DOMAIN accts
             THEN RetObject("Account", accts[account_id])
             ELSE RetNone]

\* the manager's get_position: None for an unknown account or instrument
PositionManager_get_position(accts, account_id, stock_code) ==
    [accounts |-> accts,
     ret |-> IF HasPosition(accts, account_id, stock_code)
             THEN RetObject("Position", get_position(accts, account_id, stock_code))
             ELSE RetNone]

\* get_sellable_volume that looks the account up with get_or_create_account
get_sellable_volume_CreatesAccount(accts, account_id, stock_code) ==
    LET created == get_or_create_account(accts, account_id)
    IN  [accounts |-> created,
         ret |-> IF HasPosition(created, account_id, stock_code)
                 THEN RetInt(sellable_volume(
                          get_position(created, account_id, stock_code)))
                 ELSE RetInt(0)]

get_sellable_volume(accts, account_id, stock_code) ==
    LET pos == PositionManager_get_position(accts, account_id, stock_code)
    IN  [accounts |-> pos.accounts,
         ret |-> IF pos.ret.kind = "Position"
                 THEN RetInt(sellable_volume(pos.ret.num))
                 ELSE RetInt(0)]

\* update_price that prices every holding of every account
PositionManager_update_price_EveryHolding(accts, stock_code, price) ==
    [a \in DOMAIN accts |->
        [accts[a] EXCEPT !.positions =
            [s \in DOMAIN accts[a].positions |->
                RealPosition_update_price(accts[a].positions[s], price)]]]

PositionManager_update_price(accts, stock_code, price) ==
    [a \in DOMAIN accts |->
        [accts[a] EXCEPT !.positions =
            [s \in DOMAIN accts[a].positions |->
                IF s = stock_code
                THEN RealPosition_update_price(accts[a].positions[s], price)
                ELSE accts[a].positions[s]]]]

\* f"T0_{account_id}_{stock_code}_{now:%H%M%S%f}": the date is not part of it
PositionId(account_id, stock_code, now) == <<account_id, stock_code, now>>

execute_t0_sell_first(accts, account_id, stock_code, volume, sell_price, buy_price, now) ==
    IF account_id \notin DOMAIN accts
    THEN [accounts |-> accts, ret |-> RetNone]
    ELSE IF stock_code \notin DOMAIN accts[account_id].positions
    THEN [accounts |-> accts, ret |-> RetNone]
    ELSE LET account == accts[account_id]
             position == account.positions[stock_code]
         IN  IF volume > sellable_volume(position)
             THEN [accounts |-> accts, ret |-> RetNone]
             ELSE LET v0 == VirtualPosition(stock_code, account_id,
                                PositionId(account_id, stock_code, now))
                      reduced == reduce(position, volume).pos
                      v1 == open(v0, volume, sell_price, "SELL_FIRST")
                      closed == close_all(v1, buy_price)
                      increased == increase(reduced, volume, buy_price).pos
                  IN  IF closed.raised
                      THEN [accounts |->
                               Put(accts, account_id,
                                   add_position(account, stock_code, reduced)),
                            ret |-> RetRaised]
                      ELSE [accounts |->
                               Put(accts, account_id,
                                   add_virtual_position(
                                       add_position(account, stock_code, increased),
                                       closed.vp)),
                            ret |-> RetVP(closed.vp.position_id)]

\* buy-first that books the bought shares on the real holding
execute_t0_buy_first_BooksPurchase(accts, account_id, stock_code, volume, buy_price, sell_price, now) ==
    IF account_id \notin DOMAIN accts
    THEN [accounts |-> accts, ret |-> RetNone]
    ELSE IF stock_code \notin DOMAIN accts[account_id].positions
    THEN [accounts |-> accts, ret |-> RetNone]
    ELSE LET account == accts[account_id]
             position == account.positions[stock_code]
             v0 == VirtualPosition(stock_code, account_id,
                       PositionId(account_id, stock_code, now))
             v1 == open(v0, volume, buy_price, "BUY_FIRST")
             closed == close_all(v1, sell_price)
             increased == increase(position, volume, buy_price).pos
         IN  IF closed.raised
             THEN [accounts |-> accts, ret |-> RetRaised]
             ELSE [accounts |->
                      Put(accts, account_id,
                          add_virtual_position(
                              add_position(account, stock_code, increased),
                              closed.vp)),
                   ret |-> RetVP(closed.vp.position_id)]

execute_t0_buy_first(accts, account_id, stock_code, volume, buy_price, sell_price, now) ==
    IF account_id \notin DOMAIN accts
    THEN [accounts |-> accts, ret |-> RetNone]
    ELSE IF stock_code \notin DOMAIN accts[account_id].positions
    THEN [accounts |-> accts, ret |-> RetNone]
    ELSE LET account == accts[account_id]
             v0 == VirtualPosition(stock_code, account_id,
                       PositionId(account_id, stock_code, now))
             v1 == open(v0, volume, buy_price, "BUY_FIRST")
             closed == close_all(v1, sell_price)
         IN  IF closed.raised
             THEN [accounts |-> accts, ret |-> RetRaised]
             ELSE [accounts |->
                      Put(accts, account_id,
                          add_virtual_position(account, closed.vp)),
                   ret |-> RetVP(closed.vp.position_id)]

\* a record of CCTJParseResult.positions; its market_value, cost_amount and
\* profit_loss are read by the loader and their values by nothing
CCTJPosition(stock_code, account_id, total, available, frozen, yesterday, today, cost, current) ==
    [stock_code |-> stock_code, account_id |-> account_id,
     total_volume |-> total, available_volume |-> available,
     frozen_volume |-> frozen, yesterday_volume |-> yesterday,
     today_volume |-> today, cost_price |-> cost, current_price |-> current]

\* the parameters RealPosition.__init__ declares
RealPosition_init_parameters ==
    {"stock_code", "stock_name", "account_id", "market_id", "total_volume",
     "available_volume", "frozen_volume", "yesterday_volume", "today_volume",
     "cost_price", "current_price", "status", "update_time"}

\* the keywords load_from_cctj passes to RealPosition(...)
load_from_cctj_keywords ==
    {"stock_code", "stock_name", "account_id", "market_id", "total_volume",
     "available_volume", "frozen_volume", "yesterday_volume", "today_volume",
     "cost_price", "current_price", "market_value", "cost_amount",
     "profit_loss", "update_time"}

\* the loop of load_from_cctj from count on; a call with a keyword the
\* callee does not declare raises TypeError before the callee runs
RECURSIVE LoadFrom(_, _, _)
LoadFrom(accts, positions, count) ==
    IF positions = <<>>
    THEN [accounts |-> accts, ret |-> RetInt(count)]
    ELSE IF ~(load_from_cctj_keywords \subseteq RealPosition_init_parameters)
    THEN [accounts |-> accts, ret |-> RetTypeError]
    ELSE LET pos == Head(positions)
             real_pos == RealPosition(pos.total_volume, pos.available_volume,
                             pos.frozen_volume, pos.yesterday_volume,
                             pos.today_volume, RatOfInt(pos.cost_price),
                             pos.current_price, "ACTIVE")
             created == get_or_create_account(accts, pos.account_id)
         IN  LoadFrom(Put(created, pos.account_id,
                          add_position(created[pos.account_id], pos.stock_code,
                                       real_pos)),
                      Tail(positions), count + 1)

load_from_cctj(accts, positions) == LoadFrom(accts, positions, 0)

(***************************************************************************)
(* LedgerRollingCalculator.  The calculator object is the record of its    *)
(* three dictionaries.  An optional argument is <<>> when it is None (or,  *)
(* for a list, empty) and <<x>> when it is x.  stock_name is carried along *)
(* by the source and read by nothing; of an AdjustmentEvent only the       *)
(* adjustment_factor is read by a roll and only the stock_code by the      *)
(* event store.  The 'calculation' string of a                             *)
(* history entry is a print of the entry's other four numbers.             *)
(***************************************************************************)
\* the dataclass defaults
LedgerRollingState(stock_code, account_id) ==
    [stock_code |-> stock_code, account_id |-> account_id,
     previous_ledger |-> 0, current_ledger |-> 0,
     adjustment_factor |-> 1, adjustment_amount |-> 0,
     previous_date |-> "", current_date |-> ""]

\* f"{self.account_id}_{self.stock_code}"
LedgerRollingState_key(state) == state.account_id \o "_" \o state.stock_code

AdjustmentEvent(stock_code, adjustment_factor) ==
    [stock_code |-> stock_code, adjustment_factor |-> adjustment_factor]

None == <<>>
Some(x) == <<x>>

RetValueError == Returned("ValueError", FALSE, NoId, 0)
RetState == Returned("State", TRUE, NoId, 0)

\* __init__
LedgerRollingCalculator ==
    [states |-> EmptyMap, adjustment_history |-> EmptyMap,
     calculation_history |-> EmptyMap]

\* f"{account_id}_{stock_code}"
get_state_key(account_id, stock_code) == account_id \o "_" \o stock_code

get_or_create_state(calc, account_id, stock_code) ==
    LET k == get_state_key(account_id, stock_code)
    IN  IF k \notin DOMAIN calc.states
        THEN [calc EXCEPT !.states =
                 Put(@, k, LedgerRollingState(stock_code, account_id))]
        ELSE calc

\* the factor as an exact rational; the arguments are integers
\* a factor that also takes the dividend off the price
calculate_adjustment_factor_DividendOffPrice(dividend_per_share, rights_ratio, rights_price, bonus_ratio, split_ratio, current_price) ==
    LET start == IF dividend_per_share > 0 /\ current_price > 0
                 THEN Rat(current_price - dividend_per_share, current_price)
                 ELSE RatOfInt(1)
        bonus == IF bonus_ratio > 0
                 THEN RatDiv(start, RatOfInt(1 + bonus_ratio))
                 ELSE start
        rights == IF rights_ratio > 0 /\ current_price > 0
                  THEN LET theoretical_ex_rights_price ==
                               Rat(current_price + rights_price * rights_ratio,
                                   1 + rights_ratio)
                       IN  RatMul(bonus, RatDiv(theoretical_ex_rights_price,
                                                RatOfInt(current_price)))
                  ELSE bonus
    IN  IF split_ratio > 0 /\ split_ratio # 1
        THEN RatDiv(rights, RatOfInt(split_ratio))
        ELSE rights

calculate_adjustment_factor(dividend_per_share, rights_ratio, rights_price, bonus_ratio, split_ratio, current_price) ==
    LET start == RatOfInt(1)
        bonus == IF bonus_ratio > 0
                 THEN RatDiv(start, RatOfInt(1 + bonus_ratio))
                 ELSE start
        rights == IF rights_ratio > 0 /\ current_price > 0
                  THEN LET theoretical_ex_rights_price ==
                               Rat(current_price + rights_price * rights_ratio,
                                   1 + rights_ratio)
                       IN  RatMul(bonus, RatDiv(theoretical_ex_rights_price,
                                                RatOfInt(current_price)))
                  ELSE bonus
    IN  IF split_ratio > 0 /\ split_ratio # 1
        THEN RatDiv(rights, RatOfInt(split_ratio))
        ELSE rights

calculate_adjustment_amount(previous_ledger, dividend_per_share, total_shares, special_adjustment) ==
    LET dividend == IF dividend_per_share > 0 /\ total_shares > 0
                    THEN dividend_per_share * total_shares
                    ELSE 0
    IN  IF special_adjustment # 0 THEN dividend + special_adjustment ELSE dividend

\* the loop of _calculate_composite_adjustment_factor from composite_af on
RECURSIVE CompositeFrom(_, _)
CompositeFrom(composite_af, events) ==
    IF events = <<>>
    THEN composite_af
    ELSE CompositeFrom(composite_af * Head(events).adjustment_factor, Tail(events))

\* a composite factor that stops at the first event
calculate_composite_adjustment_factor_FirstOnly(events) ==
    IF events = <<>> THEN 1 ELSE Head(events).adjustment_factor

calculate_composite_adjustment_factor(events) == CompositeFrom(1, events)

history_entry(state, trade_date) ==
    [trade_date |-> trade_date,
     previous_ledger |-> state.previous_ledger,
     adjustment_factor |-> state.adjustment_factor,
     adjustment_amount |-> state.adjustment_amount,
     current_ledger |-> state.current_ledger]

\* dict.get(k, [])
HistoryOf(calc, k) ==
    IF k \in DOMAIN calc.calculation_history
    THEN calc.calculation_history[k]
    ELSE <<>>

record_calculation(calc, state, trade_date) ==
    LET k == LedgerRollingState_key(state)
    IN  [calc EXCEPT !.calculation_history =
            Put(@, k, Append(HistoryOf(calc, k), history_entry(state, trade_date)))]

\* roll that writes its history entry before it applies the formula
roll_RecordsBeforeFormula(calc, account_id, stock_code, adjustment_factor, adjustment_amount, trade_date, events, today) ==
    IF account_id = ""
    THEN [calculator |-> calc, ret |-> RetValueError]
    ELSE IF stock_code = ""
    THEN [calculator |-> calc, ret |-> RetValueError]
    ELSE LET created == get_or_create_state(calc, account_id, stock_code)
             k == get_state_key(account_id, stock_code)
             state == created.states[k]
             shifted == [state EXCEPT
                           !.previous_ledger = IF state.current_ledger # 0
                                               THEN state.current_ledger
                                               ELSE state.previous_ledger,
                           !.previous_date = state.current_date,
                           !.current_date = IF trade_date # "" THEN trade_date
                                            ELSE today]
             from_events == IF adjustment_factor = None /\ events # <<>>
                            THEN Some(calculate_composite_adjustment_factor(events))
                            ELSE adjustment_factor
             factor == IF from_events = None THEN 1 ELSE from_events[1]
             unrolled == [shifted EXCEPT
                            !.adjustment_factor = factor,
                            !.adjustment_amount = adjustment_amount]
             rolled == [unrolled EXCEPT
                          !.current_ledger =
                              shifted.previous_ledger * factor + adjustment_amount]
             stored == [created EXCEPT !.states = Put(@, k, rolled)]
         IN  [calculator |-> record_calculation(stored, unrolled, trade_date),
              ret |-> RetState]

\* roll that looks the state up before it tests stock_code
roll_CreatesBeforeTest(calc, account_id, stock_code, adjustment_factor, adjustment_amount, trade_date, events, today) ==
    IF account_id = ""
    THEN [calculator |-> calc, ret |-> RetValueError]
    ELSE IF stock_code = ""
    THEN [calculator |-> get_or_create_state(calc, account_id, stock_code),
          ret |-> RetValueError]
    ELSE LET created == get_or_create_state(calc, account_id, stock_code)
             k == get_state_key(account_id, stock_code)
             state == created.states[k]
             shifted == [state EXCEPT
                           !.previous_ledger = IF state.current_ledger # 0
                                               THEN state.current_ledger
                                               ELSE state.previous_ledger,
                           !.previous_date = state.current_date,
                           !.current_date = IF trade_date # "" THEN trade_date
                                            ELSE today]
             from_events == IF adjustment_factor = None /\ events # <<>>
                            THEN Some(calculate_composite_adjustment_factor(events))
                            ELSE adjustment_factor
             factor == IF from_events = None THEN 1 ELSE from_events[1]
             rolled == [shifted EXCEPT
                          !.adjustment_factor = factor,
                          !.adjustment_amount = adjustment_amount,
                          !.current_ledger =
                              shifted.previous_ledger * factor + adjustment_amount]
             stored == [created EXCEPT !.states = Put(@, k, rolled)]
         IN  [calculator |-> record_calculation(stored, rolled, trade_date),
              ret |-> RetState]

\* roll that shifts current_ledger into previous_ledger whatever its value
roll_AlwaysShifts(calc, account_id, stock_code, adjustment_factor, adjustment_amount, trade_date, events, today) ==
    IF account_id = ""
    THEN [calculator |-> calc, ret |-> RetValueError]
    ELSE IF stock_code = ""
    THEN [calculator |-> calc, ret |-> RetValueError]
    ELSE LET created == get_or_create_state(calc, account_id, stock_code)
             k == get_state_key(account_id, stock_code)
             state == created.states[k]
             shifted == [state EXCEPT
                           !.previous_ledger = state.current_ledger,
                           !.previous_date = state.current_date,
                           !.current_date = IF trade_date # "" THEN trade_date
                                            ELSE today]
             from_events == IF adjustment_factor = None /\ events # <<>>
                            THEN Some(calculate_composite_adjustment_factor(events))
                            ELSE adjustment_factor
             factor == IF from_events = None THEN 1 ELSE from_events[1]
             rolled == [shifted EXCEPT
                          !.adjustment_factor = factor,
                          !.adjustment_amount = adjustment_amount,
                          !.current_ledger =
                              shifted.previous_ledger * factor + adjustment_amount]
             stored == [created EXCEPT !.states = Put(@, k, rolled)]
         IN  [calculator |-> record_calculation(stored, rolled, trade_date),
              ret |-> RetState]

roll(calc, account_id, stock_code, adjustment_factor, adjustment_amount, trade_date, events, today) ==
    IF account_id = ""
    THEN [calculator |-> calc, ret |-> RetValueError]
    ELSE IF stock_code = ""
    THEN [calculator |-> calc, ret |-> RetValueError]
    ELSE LET created == get_or_create_state(calc, account_id, stock_code)
             k == get_state_key(account_id, stock_code)
             state == created.states[k]
             shifted == [state EXCEPT
                           !.previous_ledger = IF state.current_ledger # 0
                                               THEN state.current_ledger
                                               ELSE state.previous_ledger,
                           !.previous_date = state.current_date,
                           !.current_date = IF trade_date # "" THEN trade_date
                                            ELSE today]
             from_events == IF adjustment_factor = None /\ events # <<>>
                            THEN Some(calculate_composite_adjustment_factor(events))
                            ELSE adjustment_factor
             factor == IF from_events = None THEN 1 ELSE from_events[1]
             rolled == [shifted EXCEPT
                          !.adjustment_factor = factor,
                          !.adjustment_amount = adjustment_amount,
                          !.current_ledger =
                              shifted.previous_ledger * factor + adjustment_amount]
             stored == [created EXCEPT !.states = Put(@, k, rolled)]
         IN  [calculator |-> record_calculation(stored, rolled, trade_date),
              ret |-> RetState]

\* the state as Optional: <<>> for None
get_state(calc, account_id, stock_code) ==
    LET k == get_state_key(account_id, stock_code)
    IN  IF k \in DOMAIN calc.states THEN Some(calc.states[k]) ELSE None

get_current_ledger(calc, account_id, stock_code) ==
    LET state == get_state(calc, account_id, stock_code)
    IN  IF state # None THEN state[1].current_ledger ELSE 0

get_calculation_history(calc, account_id, stock_code) ==
    HistoryOf(calc, get_state_key(account_id, stock_code))

\* reset that leaves previous_ledger as it is
reset_KeepsPrevious(calc, account_id, stock_code) ==
    LET k == get_state_key(account_id, stock_code)
    IN  IF k \in DOMAIN calc.states
        THEN [calc EXCEPT !.states[k] =
                 [@ EXCEPT !.current_ledger = 0,
                           !.adjustment_factor = 1, !.adjustment_amount = 0,
                           !.previous_date = "", !.current_date = ""]]
        ELSE calc

\* reset that also forgets the calculations of the key
reset_DropsHistory(calc, account_id, stock_code) ==
    LET k == get_state_key(account_id, stock_code)
    IN  IF k \in DOMAIN calc.states
        THEN [calc EXCEPT !.states[k] =
                 [@ EXCEPT !.previous_ledger = 0, !.current_ledger = 0,
                           !.adjustment_factor = 1, !.adjustment_amount = 0,
                           !.previous_date = "", !.current_date = ""],
                          !.calculation_history =
                              [h \in DOMAIN @ \ {k} |-> @[h]]]
        ELSE calc

\* reset that leaves the adjustment factor as it is
reset_KeepsFactor(calc, account_id, stock_code) ==
    LET k == get_state_key(account_id, stock_code)
    IN  IF k \in DOMAIN calc.states
        THEN [calc EXCEPT !.states[k] =
                 [@ EXCEPT !.previous_ledger = 0, !.current_ledger = 0,
                           !.adjustment_amount = 0,
                           !.previous_date = "", !.current_date = ""]]
        ELSE calc

reset(calc, account_id, stock_code) ==
    LET k == get_state_key(account_id, stock_code)
    IN  IF k \in DOMAIN calc.states
        THEN [calc EXCEPT !.states[k] =
                 [@ EXCEPT !.previous_ledger = 0, !.current_ledger = 0,
                           !.adjustment_factor = 1, !.adjustment_amount = 0,
                           !.previous_date = "", !.current_date = ""]]
        ELSE calc

\* clear that leaves the calculation history in place
clear_KeepsHistory(calc) ==
    [calc EXCEPT !.states = EmptyMap, !.adjustment_history = EmptyMap]

clear(calc) ==
    [calc EXCEPT !.states = EmptyMap, !.adjustment_history = EmptyMap,
                 !.calculation_history = EmptyMap]

\* an initialize_ledger that writes the seed into the state it finds
initialize_ledger_UpdatesState(calc, account_id, stock_code, initial_ledger, trade_date, today) ==
    LET k == get_state_key(account_id, stock_code)
        created == get_or_create_state(calc, account_id, stock_code)
        date == IF trade_date # "" THEN trade_date ELSE today
        state == [created.states[k] EXCEPT
                     !.current_ledger = initial_ledger,
                     !.previous_ledger = initial_ledger,
                     !.current_date = date,
                     !.previous_date = date]
    IN  [created EXCEPT !.states = Put(@, k, state)]

initialize_ledger(calc, account_id, stock_code, initial_ledger, trade_date, today) ==
    LET k == get_state_key(account_id, stock_code)
        date == IF trade_date # "" THEN trade_date ELSE today
        state == [LedgerRollingState(stock_code, account_id) EXCEPT
                     !.current_ledger = initial_ledger,
                     !.previous_ledger = initial_ledger,
                     !.current_date = date,
                     !.previous_date = date]
    IN  [calc EXCEPT !.states = Put(@, k, state)]

\* dict.get(stock_code, [])
get_adjustment_history(calc, stock_code) ==
    IF stock_code \in DOMAIN calc.adjustment_history
    THEN calc.adjustment_history[stock_code]
    ELSE <<>>

\* add_adjustment_event that starts the list of the instrument over
add_adjustment_event_StartsOver(calc, event) ==
    [calc EXCEPT !.adjustment_history = Put(@, event.stock_code, <<event>>)]

add_adjustment_event(calc, event) ==
    [calc EXCEPT !.adjustment_history =
        Put(@, event.stock_code,
            Append(get_adjustment_history(calc, event.stock_code), event))]

\* The queries as calls: the calculator they leave and the value they return.
LedgerRollingCalculator_get_state(calc, account_id, stock_code) ==
    LET k == get_state_key(account_id, stock_code)
    IN  [calculator |-> calc,
         ret |-> IF k \in DOMAIN calc.states
                 THEN RetObject("State", calc.states[k])
                 ELSE RetNone]

\* a get_current_ledger that looks the state up with _get_or_create_state
LedgerRollingCalculator_get_current_ledger_CreatesState(calc, account_id, stock_code) ==
    LET created == get_or_create_state(calc, account_id, stock_code)
        k == get_state_key(account_id, stock_code)
    IN  [calculator |-> created,
         ret |-> RetFloat(created.states[k].current_ledger)]

LedgerRollingCalculator_get_current_ledger(calc, account_id, stock_code) ==
    LET state == LedgerRollingCalculator_get_state(calc, account_id, stock_code)
    IN  [calculator |-> state.calculator,
         ret |-> IF state.ret.kind = "State"
                 THEN RetFloat(state.ret.num.current_ledger)
                 ELSE RetFloat(0)]

\* list(self._states.values()), as the set of its elements
LedgerRollingCalculator_get_all_states(calc) ==
    [calculator |-> calc,
     ret |-> RetObject("List", {calc.states[k] : k \in DOMAIN calc.states})]

LedgerRollingCalculator_get_calculation_history(calc, account_id, stock_code) ==
    LET k == get_state_key(account_id, stock_code)
    IN  [calculator |-> calc,
         ret |-> RetObject("List", IF k \in DOMAIN calc.calculation_history
                                   THEN calc.calculation_history[k]
                                   ELSE <<>>)]

LedgerRollingCalculator_get_adjustment_history(calc, stock_code) ==
    [calculator |-> calc,
     ret |-> RetObject("List", IF stock_code \in DOMAIN calc.adjustment_history
                               THEN calc.adjustment_history[stock_code]
                               ELSE <<>>)]

(***************************************************************************)
(* State.  accounts is PositionManager.accounts; vp is one VirtualPosition *)
(* object held by a caller and driven through its own methods; last is the *)
(* most recent call with its result; nops counts the calls made;           *)
(* calculator is one LedgerRollingCalculator.  round_trip remembers, after  *)
(* a freeze(v) called with 0 < v <= available_volume, the holding as it    *)
(* was before that call, and after the unfreeze(v) that directly follows   *)
(* it on the same holding, that the pair was made; any other call forgets  *)
(* it.                                                                     *)
(***************************************************************************)
Call(op, account_id, stock_code, volume, ret) ==
    [op |-> op, account_id |-> account_id, stock_code |-> stock_code,
     volume |-> volume, ret |-> ret, feed |-> <<>>, args |-> <<>>]

\* a call of a calculation, with the values it was given in signature order
ArgsCallOn(op, account_id, stock_code, volume, args, ret) ==
    [Call(op, account_id, stock_code, volume, ret) EXCEPT !.args = args]

ArgsCall(op, args, ret) == [Call(op, "", "", 0, ret) EXCEPT !.args = args]

\* a load_from_cctj call with the feed it was given
LoadCall(positions, ret) ==
    [Call("load_from_cctj", "", "", Len(positions), ret) EXCEPT !.feed = positions]

NoCall == Call("none", "", "", 0, RetNothing)

NoRoundTrip == <<>>

\* no concurrent callers
NoThreads == <<>>

\* the holdings a position feed can report
LoadablePositions ==
    { RealPosition(t, a, f, t, 0, RatOfInt(1), 1, st) :
        t \in HeldVolumes, a \in HeldVolumes, f \in HeldVolumes,
        st \in {"ACTIVE", "FROZEN"} }

ValidLoadablePositions ==
    { p \in LoadablePositions :
        p.available_volume + p.frozen_volume <= p.total_volume }

FreshVP == VirtualPosition("S1", "A1", PositionId("A1", "S1", 0))

\* the manager after get_or_create_account("A1") and add_position of holding p
Loaded(p) ==
    LET accts == get_or_create_account(EmptyMap, "A1")
    IN  Put(accts, "A1", add_position(accts["A1"], "S1", p))

Init ==
    /\ \E p \in ValidLoadablePositions : accounts = Loaded(p)
    /\ vp = FreshVP
    /\ last = NoCall
    /\ nops = 0
    /\ calculator = LedgerRollingCalculator
    /\ journal = <<>>
    /\ round_trip = NoRoundTrip
    /\ threads = NoThreads

(***************************************************************************)
(* Calls on a RealPosition obtained with get_position.                     *)
(***************************************************************************)
SetPosition(a, s, p) == Put(accounts, a, add_position(accounts[a], s, p))

Freeze(a, s, v) ==
    /\ nops < MaxOps
    /\ HasPosition(accounts, a, s)
    /\ LET r == freeze(get_position(accounts, a, s), v)
       IN  /\ accounts' = SetPosition(a, s, r.pos)
           /\ last' = Call("freeze", a, s, v, RetBool(r.ok))
    /\ round_trip' =
          IF 0 < v /\ v <= get_position(accounts, a, s).available_volume
          THEN <<[pos |-> get_position(accounts, a, s), step |-> "frozen"]>>
          ELSE NoRoundTrip
    /\ nops' = nops + 1
    /\ UNCHANGED <<vp, calculator, journal, threads>>

Unfreeze(a, s, v) ==
    /\ nops < MaxOps
    /\ HasPosition(accounts, a, s)
    /\ LET r == unfreeze(get_position(accounts, a, s), v)
       IN  /\ accounts' = SetPosition(a, s, r.pos)
           /\ last' = Call("unfreeze", a, s, v, RetBool(r.ok))
    /\ round_trip' =
          IF /\ round_trip # NoRoundTrip
             /\ round_trip[1].step = "frozen"
             /\ last.account_id = a /\ last.stock_code = s /\ last.volume = v
          THEN <<[round_trip[1] EXCEPT !.step = "restored"]>>
          ELSE NoRoundTrip
    /\ nops' = nops + 1
    /\ UNCHANGED <<vp, calculator, journal, threads>>

Reduce(a, s, v) ==
    /\ nops < MaxOps
    /\ HasPosition(accounts, a, s)
    /\ LET r == reduce(get_position(accounts, a, s), v)
       IN  /\ accounts' = SetPosition(a, s, r.pos)
           /\ last' = Call("reduce", a, s, v, RetBool(r.ok))
    /\ round_trip' = NoRoundTrip
    /\ nops' = nops + 1
    /\ UNCHANGED <<vp, calculator, journal, threads>>

Increase(a, s, v, price) ==
    /\ nops < MaxOps
    /\ HasPosition(accounts, a, s)
    /\ LET r == increase(get_position(accounts, a, s), v, price)
       IN  /\ accounts' = SetPosition(a, s, r.pos)
           /\ last' = Call("increase", a, s, v, RetBool(r.ok))
    /\ round_trip' = NoRoundTrip
    /\ nops' = nops + 1
    /\ UNCHANGED <<vp, calculator, journal, threads>>

(***************************************************************************)
(* Calls on the PositionManager.                                           *)
(***************************************************************************)
UpdatePrice(s, price) ==
    /\ nops < MaxOps
    /\ accounts' = PositionManager_update_price(accounts, s, price)
    /\ last' = ArgsCallOn("update_price", "", s, 0, <<price>>, RetNothing)
    /\ round_trip' = NoRoundTrip
    /\ nops' = nops + 1
    /\ UNCHANGED <<vp, calculator, journal, threads>>

ExecuteT0SellFirst(a, s, v, sell_price, buy_price, now) ==
    /\ nops < MaxOps
    /\ LET r == execute_t0_sell_first(accounts, a, s, v, sell_price, buy_price, now)
       IN  /\ accounts' = r.accounts
           /\ last' = Call("execute_t0_sell_first", a, s, v, r.ret)
    /\ round_trip' = NoRoundTrip
    /\ nops' = nops + 1
    /\ UNCHANGED <<vp, calculator, journal, threads>>

ExecuteT0BuyFirst(a, s, v, buy_price, sell_price, now) ==
    /\ nops < MaxOps
    /\ LET r == execute_t0_buy_first(accounts, a, s, v, buy_price, sell_price, now)
       IN  /\ accounts' = r.accounts
           /\ last' = Call("execute_t0_buy_first", a, s, v, r.ret)
    /\ round_trip' = NoRoundTrip
    /\ nops' = nops + 1
    /\ UNCHANGED <<vp, calculator, journal, threads>>

\* the feed of CCTJPosition records that rows stands for
FeedOf(rows) ==
    [i \in 1..Len(rows) |->
        CCTJPosition("S1", rows[i][1], rows[i][2], rows[i][3], rows[i][4],
                     rows[i][2], 0, 1, 1)]

\* load_from_cctj called with the feed that rows stands for
LoadFromCctj(rows) ==
    /\ nops < MaxOps
    /\ LET positions == FeedOf(rows)
           r == load_from_cctj(accounts, positions)
       IN  /\ accounts' = r.accounts
           /\ last' = LoadCall(positions, r.ret)
    /\ round_trip' = NoRoundTrip
    /\ nops' = nops + 1
    /\ UNCHANGED <<vp, calculator, journal, threads>>

Next ==
    \/ \E a \in Accounts, s \in Stocks, v \in Volumes : Freeze(a, s, v)
    \/ \E a \in Accounts, s \in Stocks, v \in Volumes : Unfreeze(a, s, v)
    \/ \E a \in Accounts, s \in Stocks, v \in Volumes : Reduce(a, s, v)
    \/ \E a \in Accounts, s \in Stocks, v \in Volumes, price \in Prices :
          Increase(a, s, v, price)
    \/ \E s \in Stocks, price \in Prices : UpdatePrice(s, price)
    \/ \E a \in Accounts, s \in Stocks, v \in Volumes,
          sell_price \in Prices, buy_price \in Prices, now \in Ticks :
          ExecuteT0SellFirst(a, s, v, sell_price, buy_price, now)
    \/ \E a \in Accounts, s \in Stocks, v \in Volumes,
          buy_price \in Prices, sell_price \in Prices, now \in Ticks :
          ExecuteT0BuyFirst(a, s, v, buy_price, sell_price, now)
    \/ \E rows \in FeedRows : LoadFromCctj(rows)

Spec == Init /\ [][Next]_vars

(***************************************************************************)
(* One trading day of a holding: nothing unfreezes shares and nothing      *)
(* reloads the holding.  The journal opens with the add_position call that *)
(* installed the holding and then takes every sell-first T0 call, with its *)
(* prices as args.  A caller may go on repeating its sell-first call for   *)
(* as long as it goes through.                                             *)
(***************************************************************************)
SellFirstCall(a, s, v, sell_price, buy_price, ret) ==
    ArgsCallOn("execute_t0_sell_first", a, s, v, <<sell_price, buy_price>>, ret)

\* the holdings of two shares that have a share available
DayPositions ==
    { p \in ValidLoadablePositions :
        p.total_volume = 2 /\ p.available_volume >= 1 }

InitDay ==
    /\ \E p \in DayPositions :
          /\ accounts = Loaded(p)
          /\ journal = <<ArgsCallOn("add_position", "A1", "S1", 0, <<p>>,
                                    RetNothing)>>
    /\ vp = FreshVP
    /\ last = NoCall
    /\ nops = 0
    /\ calculator = LedgerRollingCalculator
    /\ round_trip = NoRoundTrip
    /\ threads = NoThreads

SellFirstOfDay(a, s, v, sell_price, buy_price, now) ==
    /\ nops < MaxOps
    /\ LET r == execute_t0_sell_first(accounts, a, s, v, sell_price, buy_price, now)
       IN  /\ accounts' = r.accounts
           /\ last' = SellFirstCall(a, s, v, sell_price, buy_price, r.ret)
    /\ journal' = Append(journal, last')
    /\ nops' = nops + 1
    /\ UNCHANGED <<vp, calculator, round_trip, threads>>

\* the latest sell-first call went through with a positive volume
LatestWentThrough ==
    LET c == journal[Len(journal)]
    IN  /\ c.op = "execute_t0_sell_first"
        /\ c.ret.kind = "VP"
        /\ c.volume > 0

\* the same call again; every repeat that goes through takes its volume off
\* available_volume, so the repeats end
RepeatSellFirst(now) ==
    /\ LatestWentThrough
    /\ LET c == journal[Len(journal)]
           r == execute_t0_sell_first(accounts, c.account_id, c.stock_code,
                                      c.volume, c.args[1], c.args[2], now)
       IN  /\ accounts' = r.accounts
           /\ last' = [c EXCEPT !.ret = r.ret]
    /\ journal' = Append(journal, last')
    /\ UNCHANGED <<vp, nops, calculator, round_trip, threads>>

NextDay ==
    \/ \E p \in DayKeyed, v \in Volumes, sell_price \in Prices,
          buy_price \in BuyBackPrices, now \in DayTicks :
          SellFirstOfDay(p[1], p[2], v, sell_price, buy_price, now)
    \/ \E now \in DayTicks : RepeatSellFirst(now)
    \/ \E p \in DayKeyed, v \in Volumes : Freeze(p[1], p[2], v)

\* the caller that repeats its call does make the next call
SpecDay ==
    InitDay /\ [][NextDay]_vars /\ WF_vars(\E now \in DayTicks : RepeatSellFirst(now))

(***************************************************************************)
(* A VirtualPosition driven directly through open, close_partial and       *)
(* close_all, in any order, from the freshly constructed object.           *)
(***************************************************************************)
InitVP ==
    /\ accounts = EmptyMap
    /\ vp = FreshVP
    /\ last = NoCall
    /\ nops = 0
    /\ calculator = LedgerRollingCalculator
    /\ journal = <<>>
    /\ round_trip = NoRoundTrip
    /\ threads = NoThreads

Open(v, price, t0_type) ==
    /\ vp' = open(vp, v, price, t0_type)
    /\ last' = Call("open", "", "", v, RetNothing)
    /\ UNCHANGED <<accounts, nops, calculator, journal, round_trip, threads>>

ClosePartial(v, price) ==
    /\ LET r == close_partial(vp, v, price)
       IN  /\ vp' = r.vp
           /\ last' = Call("close_partial", "", "", v,
                            IF r.raised THEN RetRaised ELSE RetFloat(r.profit))
    /\ UNCHANGED <<accounts, nops, calculator, journal, round_trip, threads>>

CloseAll(price) ==
    /\ LET r == close_all(vp, price)
       IN  /\ vp' = r.vp
           /\ last' = Call("close_all", "", "", remaining_volume(vp),
                            IF r.raised THEN RetRaised ELSE RetFloat(r.profit))
    /\ UNCHANGED <<accounts, nops, calculator, journal, round_trip, threads>>

NextVP ==
    \/ \E v \in Volumes, price \in Prices, t0_type \in T0Types :
          Open(v, price, t0_type)
    \/ \E v \in Volumes, price \in Prices : ClosePartial(v, price)
    \/ \E price \in Prices : CloseAll(price)

SpecVP == InitVP /\ [][NextVP]_vars

(***************************************************************************)
(* A manager with up to two accounts and two instruments, and the calls    *)
(* that look accounts and holdings up.                                     *)
(***************************************************************************)
ManagerPositions ==
    { RealPosition(2, 2, 0, 2, 0, RatOfInt(1), 1, st) :
        st \in {"ACTIVE", "FROZEN"} }
      \cup {RealPosition(2, 1, 1, 2, 0, RatOfInt(1), 1, "ACTIVE")}

\* accts after get_or_create_account(a) and add_position of holding p of s
Hold(accts, a, s, p) ==
    LET created == get_or_create_account(accts, a)
    IN  Put(created, a, add_position(created[a], s, p))

\* the empty manager; one account with one holding; the same beside an
\* account without holdings; two accounts that hold S1, one of them S2 too
Managers ==
    {EmptyMap}
      \cup { Loaded(p) : p \in ManagerPositions }
      \cup { get_or_create_account(Loaded(p), "A2") : p \in ManagerPositions }
      \cup { Hold(Hold(Loaded(p), "A2", "S1", p), "A1", "S2", p) :
               p \in ManagerPositions }

InitManager ==
    /\ accounts \in Managers
    /\ vp = FreshVP
    /\ last = NoCall
    /\ nops = 0
    /\ calculator = LedgerRollingCalculator
    /\ journal = <<>>
    /\ round_trip = NoRoundTrip
    /\ threads = NoThreads

GetOrCreateAccount(a) ==
    /\ nops < MaxOps
    /\ accounts' = get_or_create_account(accounts, a)
    /\ last' = Call("get_or_create_account", a, "", 0,
                    RetObject("Account", accounts'[a]))
    /\ nops' = nops + 1
    /\ UNCHANGED <<vp, calculator, journal, round_trip, threads>>

GetAccount(a) ==
    /\ nops < MaxOps
    /\ LET r == get_account(accounts, a)
       IN  /\ accounts' = r.accounts
           /\ last' = Call("get_account", a, "", 0, r.ret)
    /\ nops' = nops + 1
    /\ UNCHANGED <<vp, calculator, journal, round_trip, threads>>

GetPosition(a, s) ==
    /\ nops < MaxOps
    /\ LET r == PositionManager_get_position(accounts, a, s)
       IN  /\ accounts' = r.accounts
           /\ last' = Call("get_position", a, s, 0, r.ret)
    /\ nops' = nops + 1
    /\ UNCHANGED <<vp, calculator, journal, round_trip, threads>>

GetSellableVolume(a, s) ==
    /\ nops < MaxOps
    /\ LET r == get_sellable_volume(accounts, a, s)
       IN  /\ accounts' = r.accounts
           /\ last' = Call("get_sellable_volume", a, s, 0, r.ret)
    /\ nops' = nops + 1
    /\ UNCHANGED <<vp, calculator, journal, round_trip, threads>>

NextManager ==
    \/ \E a \in Accounts : GetOrCreateAccount(a)
    \/ \E a \in Accounts : GetAccount(a)
    \/ \E a \in Accounts, s \in ManagerStocks : GetPosition(a, s)
    \/ \E a \in Accounts, s \in ManagerStocks : GetSellableVolume(a, s)
    \/ \E s \in ManagerStocks, price \in Prices : UpdatePrice(s, price)
    \/ \E a \in Accounts, s \in ManagerStocks, v \in ThreadVolumes,
          sell_price \in ThreadPrices, buy_price \in ThreadPrices,
          now \in DayTicks :
          ExecuteT0SellFirst(a, s, v, sell_price, buy_price, now)
    \/ \E a \in Accounts, s \in ManagerStocks, v \in ThreadVolumes,
          buy_price \in ThreadPrices, sell_price \in ThreadPrices,
          now \in DayTicks :
          ExecuteT0BuyFirst(a, s, v, buy_price, sell_price, now)
    \/ \E rows \in FeedRows : LoadFromCctj(rows)

SpecManager == InitManager /\ [][NextManager]_vars

(***************************************************************************)
(* Two concurrent callers on the holding ("A1", "S1").  The source takes   *)
(* no lock.  A caller of execute_t0_sell_first runs the statements of the  *)
(* method one step at a time: the look-up, test and construction of lines  *)
(* 497-514, which read the holding once; reduce (517); open and close_all  *)
(* on its own VirtualPosition (520-523); increase (526); the storing and   *)
(* the return (528-531).  A caller of freeze or unfreeze makes its call in *)
(* one step.  Each called method is one step here, so every run of this    *)
(* specification is a run of the interleaving of single statements.        *)
(* threads[t] is the caller's call (op, volume, prices), its position pc   *)
(* in it, its local VirtualPosition and what it got back.                  *)
(***************************************************************************)
Programs ==
    { [op |-> op, volume |-> v, sell_price |-> sp, buy_price |-> bp] :
        op \in {"execute_t0_sell_first", "freeze", "unfreeze"},
        v \in ThreadVolumes, sp \in ThreadPrices, bp \in ThreadPrices }

T0Programs == { c \in Programs : c.op = "execute_t0_sell_first" }

Start(c) ==
    [op |-> c.op, volume |-> c.volume, sell_price |-> c.sell_price,
     buy_price |-> c.buy_price,
     pc |-> IF c.op = "execute_t0_sell_first" THEN "test" ELSE "call",
     vp |-> FreshVP, ret |-> RetNothing]

InitThreads ==
    /\ \E p \in DayPositions :
          /\ accounts = Loaded(p)
          /\ journal = <<ArgsCallOn("add_position", "A1", "S1", 0, <<p>>,
                                    RetNothing)>>
    /\ \E first \in T0Programs, second \in Programs :
          threads = [t \in ThreadIds |->
                        IF t = "t1" THEN Start(first) ELSE Start(second)]
    /\ vp = FreshVP
    /\ last = NoCall
    /\ nops = 0
    /\ calculator = LedgerRollingCalculator
    /\ round_trip = NoRoundTrip

Held == get_position(accounts, "A1", "S1")

Done(t, ret) ==
    /\ threads' = [threads EXCEPT ![t].pc = "done", ![t].ret = ret]
    /\ last' = Call(threads[t].op, "A1", "S1", threads[t].volume, ret)

\* lines 497-514
T0Test(t, now) ==
    /\ threads[t].pc = "test"
    /\ IF threads[t].volume > sellable_volume(Held)
       THEN Done(t, RetNone)
       ELSE /\ threads' = [threads EXCEPT
                              ![t].pc = "reduce",
                              ![t].vp = VirtualPosition("S1", "A1",
                                            PositionId("A1", "S1", now))]
            /\ UNCHANGED last
    /\ UNCHANGED <<accounts, vp, nops, calculator, journal, round_trip>>

\* line 517
T0Reduce(t) ==
    /\ threads[t].pc = "reduce"
    /\ accounts' = SetPosition("A1", "S1", reduce(Held, threads[t].volume).pos)
    /\ threads' = [threads EXCEPT ![t].pc = "close"]
    /\ UNCHANGED <<vp, last, nops, calculator, journal, round_trip>>

\* lines 520-523
T0Close(t) ==
    /\ threads[t].pc = "close"
    /\ LET opened == open(threads[t].vp, threads[t].volume,
                          threads[t].sell_price, "SELL_FIRST")
           closed == close_all(opened, threads[t].buy_price)
       IN  IF closed.raised
           THEN Done(t, RetRaised)
           ELSE /\ threads' = [threads EXCEPT ![t].pc = "increase",
                                              ![t].vp = closed.vp]
                /\ UNCHANGED last
    /\ UNCHANGED <<accounts, vp, nops, calculator, journal, round_trip>>

\* line 526
T0Increase(t) ==
    /\ threads[t].pc = "increase"
    /\ accounts' = SetPosition("A1", "S1",
                       increase(Held, threads[t].volume,
                                threads[t].buy_price).pos)
    /\ threads' = [threads EXCEPT ![t].pc = "store"]
    /\ UNCHANGED <<vp, last, nops, calculator, journal, round_trip>>

\* lines 528-531
T0Store(t) ==
    /\ threads[t].pc = "store"
    /\ accounts' = Put(accounts, "A1",
                       add_virtual_position(accounts["A1"], threads[t].vp))
    /\ Done(t, RetVP(threads[t].vp.position_id))
    /\ UNCHANGED <<vp, nops, calculator, journal, round_trip>>

FreezeCall(t) ==
    /\ threads[t].pc = "call"
    /\ threads[t].op = "freeze"
    /\ LET r == freeze(Held, threads[t].volume)
       IN  /\ accounts' = SetPosition("A1", "S1", r.pos)
           /\ Done(t, RetBool(r.ok))
    /\ UNCHANGED <<vp, nops, calculator, journal, round_trip>>

UnfreezeCall(t) ==
    /\ threads[t].pc = "call"
    /\ threads[t].op = "unfreeze"
    /\ LET r == unfreeze(Held, threads[t].volume)
       IN  /\ accounts' = SetPosition("A1", "S1", r.pos)
           /\ Done(t, RetBool(r.ok))
    /\ UNCHANGED <<vp, nops, calculator, journal, round_trip>>

NextThreads ==
    \/ \E t \in ThreadIds, now \in Ticks : T0Test(t, now)
    \/ \E t \in ThreadIds : T0Reduce(t)
    \/ \E t \in ThreadIds : T0Close(t)
    \/ \E t \in ThreadIds : T0Increase(t)
    \/ \E t \in ThreadIds : T0Store(t)
    \/ \E t \in ThreadIds : FreezeCall(t)
    \/ \E t \in ThreadIds : UnfreezeCall(t)

SpecThreads == InitThreads /\ [][NextThreads]_vars

(***************************************************************************)
(* One VirtualPosition object that is opened once, with a positive volume, *)
(* and then only closed.                                                   *)
(***************************************************************************)
Opened == last # NoCall

OpenOnce(v, price, t0_type) ==
    /\ ~Opened
    /\ v > 0
    /\ Open(v, price, t0_type)

ClosePartialOpened(v, price) ==
    /\ Opened
    /\ ClosePartial(v, price)

CloseAllOpened(price) ==
    /\ Opened
    /\ CloseAll(price)

NextVPOnce ==
    \/ \E v \in Volumes, price \in Prices, t0_type \in T0Types :
          OpenOnce(v, price, t0_type)
    \/ \E v \in Volumes, price \in Prices : ClosePartialOpened(v, price)
    \/ \E price \in Prices : CloseAllOpened(price)

SpecVPOnce == InitVP /\ [][NextVPOnce]_vars

(***************************************************************************)
(* A LedgerRollingCalculator driven through roll, initialize_ledger, reset *)
(* and clear, in any order, from the freshly constructed object.  journal  *)
(* is the list of the calls that completed, in call order; a roll is       *)
(* journalled with the values of the state it returned.                    *)
(***************************************************************************)
NoEntry == history_entry(LedgerRollingState("", ""), "")

Completed(op, account_id, stock_code, entry) ==
    [op |-> op, account_id |-> account_id, stock_code |-> stock_code,
     entry |-> entry]

InitLedger ==
    /\ accounts = EmptyMap
    /\ vp = FreshVP
    /\ last = NoCall
    /\ nops = 0
    /\ calculator = LedgerRollingCalculator
    /\ journal = <<>>
    /\ round_trip = NoRoundTrip
    /\ threads = NoThreads

Roll(a, s, adjustment_factor, adjustment_amount, trade_date, events, today) ==
    /\ nops < MaxLedgerOps
    /\ LET r == roll(calculator, a, s, adjustment_factor, adjustment_amount,
                     trade_date, events, today)
       IN  /\ calculator' = r.calculator
           /\ last' = Call("roll", a, s, 0, r.ret)
           /\ journal' =
                 IF r.ret.kind = "State"
                 THEN Append(journal,
                        Completed("roll", a, s,
                          history_entry(r.calculator.states[get_state_key(a, s)],
                                        trade_date)))
                 ELSE journal
    /\ nops' = nops + 1
    /\ UNCHANGED <<accounts, vp, round_trip, threads>>

InitializeLedger(a, s, initial_ledger, trade_date, today) ==
    /\ nops < MaxLedgerOps
    /\ calculator' = initialize_ledger(calculator, a, s, initial_ledger,
                                       trade_date, today)
    /\ last' = Call("initialize_ledger", a, s, 0, RetState)
    /\ journal' = Append(journal, Completed("initialize_ledger", a, s, NoEntry))
    /\ nops' = nops + 1
    /\ UNCHANGED <<accounts, vp, round_trip, threads>>

Reset(a, s) ==
    /\ nops < MaxLedgerOps
    /\ calculator' = reset(calculator, a, s)
    /\ last' = Call("reset", a, s, 0, RetNothing)
    /\ journal' = Append(journal, Completed("reset", a, s, NoEntry))
    /\ nops' = nops + 1
    /\ UNCHANGED <<accounts, vp, round_trip, threads>>

Clear ==
    /\ nops < MaxLedgerOps
    /\ calculator' = clear(calculator)
    /\ last' = Call("clear", "", "", 0, RetNothing)
    /\ journal' = Append(journal, Completed("clear", "", "", NoEntry))
    /\ nops' = nops + 1
    /\ UNCHANGED <<accounts, vp, round_trip, threads>>

\* one ledger and its day-by-day chain, with the calls a caller can get wrong
NextLedger ==
    \/ \E p \in ChainPairs, adjustment_factor \in Factors,
          adjustment_amount \in Amounts, trade_date \in RollDates,
          events \in EventLists, today \in Todays :
          Roll(p[1], p[2], adjustment_factor, adjustment_amount, trade_date,
               events, today)
    \/ \E p \in ChainKeyed, initial_ledger \in Seeds, trade_date \in SeedDates,
          today \in Todays :
          InitializeLedger(p[1], p[2], initial_ledger, trade_date, today)
    \/ \E p \in ChainKeyed : Reset(p[1], p[2])
    \/ Clear

SpecLedger == InitLedger /\ [][NextLedger]_vars

\* several ledgers side by side
NextLedgerKeys ==
    \/ \E p \in KeyPairs, adjustment_amount \in KeyAmounts, today \in Todays :
          Roll(p[1], p[2], None, adjustment_amount, "", None, today)
    \/ \E p \in KeyPairs, initial_ledger \in KeySeeds, today \in Todays :
          InitializeLedger(p[1], p[2], initial_ledger, "", today)
    \/ \E p \in KeyPairs : Reset(p[1], p[2])
    \/ Clear

SpecLedgerKeys == InitLedger /\ [][NextLedgerKeys]_vars

AddAdjustmentEvent(event) ==
    /\ nops < MaxLedgerOps
    /\ calculator' = add_adjustment_event(calculator, event)
    /\ last' = ArgsCallOn("add_adjustment_event", "", event.stock_code, 0,
                          <<event>>, RetNothing)
    /\ journal' = Append(journal,
                     Completed("add_adjustment_event", "", event.stock_code,
                               NoEntry))
    /\ nops' = nops + 1
    /\ UNCHANGED <<accounts, vp, round_trip, threads>>

\* one ledger rolled with and without factor and events, beside an event store
NextLedgerEvents ==
    \/ \E p \in ChainKeyed, adjustment_factor \in EventFactors,
          adjustment_amount \in KeySeeds, events \in PassedEvents,
          today \in Todays :
          Roll(p[1], p[2], adjustment_factor, adjustment_amount, "", events,
               today)
    \/ \E p \in ChainKeyed, initial_ledger \in KeySeeds, today \in Todays :
          InitializeLedger(p[1], p[2], initial_ledger, "", today)
    \/ \E event \in StoredEvents : AddAdjustmentEvent(event)

SpecLedgerEvents == InitLedger /\ [][NextLedgerEvents]_vars

GetState(a, s) ==
    /\ nops < MaxLedgerOps
    /\ LET r == LedgerRollingCalculator_get_state(calculator, a, s)
       IN  /\ calculator' = r.calculator
           /\ last' = Call("get_state", a, s, 0, r.ret)
    /\ nops' = nops + 1
    /\ UNCHANGED <<accounts, vp, journal, round_trip, threads>>

GetCurrentLedger(a, s) ==
    /\ nops < MaxLedgerOps
    /\ LET r == LedgerRollingCalculator_get_current_ledger(calculator, a, s)
       IN  /\ calculator' = r.calculator
           /\ last' = Call("get_current_ledger", a, s, 0, r.ret)
    /\ nops' = nops + 1
    /\ UNCHANGED <<accounts, vp, journal, round_trip, threads>>

GetAllStates ==
    /\ nops < MaxLedgerOps
    /\ LET r == LedgerRollingCalculator_get_all_states(calculator)
       IN  /\ calculator' = r.calculator
           /\ last' = Call("get_all_states", "", "", 0, r.ret)
    /\ nops' = nops + 1
    /\ UNCHANGED <<accounts, vp, journal, round_trip, threads>>

GetCalculationHistory(a, s) ==
    /\ nops < MaxLedgerOps
    /\ LET r == LedgerRollingCalculator_get_calculation_history(calculator, a, s)
       IN  /\ calculator' = r.calculator
           /\ last' = Call("get_calculation_history", a, s, 0, r.ret)
    /\ nops' = nops + 1
    /\ UNCHANGED <<accounts, vp, journal, round_trip, threads>>

GetAdjustmentHistory(s) ==
    /\ nops < MaxLedgerOps
    /\ LET r == LedgerRollingCalculator_get_adjustment_history(calculator, s)
       IN  /\ calculator' = r.calculator
           /\ last' = Call("get_adjustment_history", "", s, 0, r.ret)
    /\ nops' = nops + 1
    /\ UNCHANGED <<accounts, vp, journal, round_trip, threads>>

\* one ledger and an event store, changed and asked about
NextLedgerQueries ==
    \/ \E p \in ChainKeyed, adjustment_factor \in EventFactors,
          adjustment_amount \in KeySeeds, events \in PassedEvents,
          today \in Todays :
          Roll(p[1], p[2], adjustment_factor, adjustment_amount, "", events,
               today)
    \/ \E p \in ChainKeyed, initial_ledger \in KeySeeds, today \in Todays :
          InitializeLedger(p[1], p[2], initial_ledger, "", today)
    \/ \E p \in ChainKeyed : Reset(p[1], p[2])
    \/ Clear
    \/ \E event \in BookedEvents : AddAdjustmentEvent(event)
    \/ \E p \in AskedPairs : GetState(p[1], p[2])
    \/ \E p \in AskedPairs : GetCurrentLedger(p[1], p[2])
    \/ GetAllStates
    \/ \E p \in AskedPairs : GetCalculationHistory(p[1], p[2])
    \/ \E p \in AskedPairs : GetAdjustmentHistory(p[2])

SpecLedgerQueries == InitLedger /\ [][NextLedgerQueries]_vars

(***************************************************************************)
(* The two adjustment calculations of the calculator, which read and write *)
(* no state, applied to every combination of their arguments.              *)
(***************************************************************************)
CalculateAdjustmentFactor(dividend_per_share, rights_ratio, rights_price, bonus_ratio, split_ratio, current_price) ==
    /\ last' = ArgsCall("calculate_adjustment_factor",
                        <<dividend_per_share, rights_ratio, rights_price,
                          bonus_ratio, split_ratio, current_price>>,
                        RetFloat(calculate_adjustment_factor(
                            dividend_per_share, rights_ratio, rights_price,
                            bonus_ratio, split_ratio, current_price)))
    /\ UNCHANGED <<accounts, vp, nops, calculator, journal, round_trip, threads>>

CalculateAdjustmentAmount(previous_ledger, dividend_per_share, total_shares, special_adjustment) ==
    /\ last' = ArgsCall("calculate_adjustment_amount",
                        <<previous_ledger, dividend_per_share, total_shares,
                          special_adjustment>>,
                        RetFloat(calculate_adjustment_amount(
                            previous_ledger, dividend_per_share, total_shares,
                            special_adjustment)))
    /\ UNCHANGED <<accounts, vp, nops, calculator, journal, round_trip, threads>>

NextAdjust ==
    \/ \E dividend_per_share \in Dividends, rights_ratio \in Ratios,
          rights_price \in SharePrices, bonus_ratio \in Ratios,
          split_ratio \in SplitRatios, current_price \in SharePrices :
          CalculateAdjustmentFactor(dividend_per_share, rights_ratio,
              rights_price, bonus_ratio, split_ratio, current_price)
    \/ \E previous_ledger \in Ledgers, dividend_per_share \in Dividends,
          total_shares \in Shares, special_adjustment \in Specials :
          CalculateAdjustmentAmount(previous_ledger, dividend_per_share,
              total_shares, special_adjustment)

SpecAdjust == InitLedger /\ [][NextAdjust]_vars

(***************************************************************************)
(* Properties                                                              *)
(***************************************************************************)
IsT0Call(c) == c.op \in {"execute_t0_sell_first", "execute_t0_buy_first"}

\* the holding a call was aimed at, in a manager that has it
TargetHeld(accts, c) == HasPosition(accts, c.account_id, c.stock_code)
Target(accts, c) == accts[c.account_id].positions[c.stock_code]
TargetVPs(accts, c) == accts[c.account_id].virtual_positions

VolumesConsistent(p) ==
    /\ p.total_volume >= 0
    /\ p.available_volume >= 0
    /\ p.frozen_volume >= 0
    /\ p.available_volume + p.frozen_volume <= p.total_volume

\* C1: every RealPosition reached from a consistent holding by freeze,
\* unfreeze, reduce, increase, update_price and the two T0 entry points, with
\* any volume argument, has total, available and frozen volume >= 0 and
\* available + frozen <= total.
C1_VolumesStayConsistent ==
    \A a \in DOMAIN accounts : \A s \in DOMAIN accounts[a].positions :
        VolumesConsistent(accounts[a].positions[s])

\* a sell-first T0 went through on a holding that has shares frozen
C1_Witness ==
    /\ nops >= 2
    /\ last.op = "execute_t0_sell_first"
    /\ last.ret.kind = "VP"
    /\ last.volume > 0
    /\ Target(accounts, last).frozen_volume > 0

\* C2: execute_t0_sell_first with volume above the holding's sellable volume
\* (available_volume, 0 when FROZEN) returns None and leaves every field of
\* every RealPosition and every virtual_positions map as it was.
C2_RejectedSellFirstChangesNothing ==
    [][(last'.op = "execute_t0_sell_first" /\ TargetHeld(accounts, last'))
        => LET p == Target(accounts, last')
               sellable == IF p.status = "FROZEN" THEN 0 ELSE p.available_volume
           IN  last'.volume > sellable
                 => (last'.ret = RetNone /\ accounts' = accounts)]_vars

\* a sell-first T0 for one share was refused on a FROZEN holding that has
\* shares available
C2_Witness ==
    /\ last.op = "execute_t0_sell_first"
    /\ last.ret.kind = "None"
    /\ TargetHeld(accounts, last)
    /\ Target(accounts, last).status = "FROZEN"
    /\ last.volume = 1
    /\ Target(accounts, last).available_volume >= 1

\* C3: every execute_t0_sell_first call either returns None with the manager
\* unchanged or returns a VirtualPosition; none ends, by return or by an
\* exception, with the holding reduced and not increased again.
C3_SellFirstAllOrNothing ==
    [][last'.op = "execute_t0_sell_first"
        => /\ last'.ret.kind \in {"None", "VP"}
           /\ last'.ret.kind = "None" => accounts' = accounts
           /\ TargetHeld(accounts, last')
                => Target(accounts', last').total_volume
                     = Target(accounts, last').total_volume]_vars

\* C4: a sell-first T0 that returns a VirtualPosition leaves total_volume of
\* the holding at its value before the call.
C4_SellFirstKeepsTotal ==
    [][(last'.op = "execute_t0_sell_first" /\ last'.ret.kind = "VP")
        => Target(accounts', last').total_volume
             = Target(accounts, last').total_volume]_vars

\* a sell-first T0 of a positive volume returned its VirtualPosition and the
\* bought-back shares were booked
C4_Witness ==
    /\ last.op = "execute_t0_sell_first"
    /\ last.ret.kind = "VP"
    /\ last.volume > 0
    /\ Target(accounts, last).today_volume = last.volume

VolumesClosedWithinOpen(v) ==
    0 <= v.closed_volume /\ v.closed_volume <= v.open_volume

\* C5: every VirtualPosition, driven directly or stored by a T0 entry point,
\* has 0 <= closed_volume <= open_volume.
C5_ClosedWithinOpen ==
    /\ VolumesClosedWithinOpen(vp)
    /\ \A a \in DOMAIN accounts : \A id \in DOMAIN accounts[a].virtual_positions :
          VolumesClosedWithinOpen(accounts[a].virtual_positions[id])

\* C6: once a VirtualPosition is CLOSED no open, close_partial or close_all
\* call makes it ACTIVE again.
C6_ClosedIsTerminal ==
    [][vp.status = "CLOSED" => vp'.status = "CLOSED"]_vars

\* C7: the VirtualPosition a T0 entry point returns is fully closed: status
\* CLOSED, closed_volume = open_volume = the requested volume; and no stored
\* VirtualPosition is ACTIVE.
C7_ReturnedFullyClosed ==
    /\ (IsT0Call(last) /\ last.ret.kind = "VP")
         => LET v == TargetVPs(accounts, last)[last.ret.id]
            IN  /\ v.status = "CLOSED"
                /\ v.closed_volume = last.volume
                /\ v.open_volume = last.volume
                /\ remaining_volume(v) = 0
    /\ \A a \in DOMAIN accounts : \A id \in DOMAIN accounts[a].virtual_positions :
          accounts[a].virtual_positions[id].status # "ACTIVE"

\* C8: execute_t0_buy_first with volume above the holding's sellable volume
\* (available_volume, 0 when FROZEN) hands back no VirtualPosition and
\* stores none.  The claim says more, that the call returns None; a call
\* that raises is therefore not held against it here.
C8_BuyFirstChecksSellable ==
    [][(last'.op = "execute_t0_buy_first" /\ TargetHeld(accounts, last'))
        => LET p == Target(accounts, last')
               sellable == IF p.status = "FROZEN" THEN 0 ELSE p.available_volume
           IN  last'.volume > sellable
                 => /\ last'.ret.kind # "VP"
                    /\ TargetVPs(accounts', last') = TargetVPs(accounts, last')]_vars

\* C9: no execute_t0_buy_first call, whatever it returns, changes a field of
\* a RealPosition of the manager.
C9_BuyFirstLeavesRealPositions ==
    [][last'.op = "execute_t0_buy_first"
        => /\ DOMAIN accounts' = DOMAIN accounts
           /\ \A a \in DOMAIN accounts :
                 accounts'[a].positions = accounts[a].positions]_vars

\* a buy-first T0 of a positive volume returned its VirtualPosition
C9_Witness ==
    /\ last.op = "execute_t0_buy_first"
    /\ last.ret.kind = "VP"
    /\ last.volume > 0
    /\ TargetVPs(accounts, last)[last.ret.id].status = "CLOSED"

\* C10: a T0 call that returns a VirtualPosition stores it under a
\* position_id that was not in the account's map, and every record that was
\* in the map is still there, unchanged.  Stated for calls of a positive
\* volume, the ones a T0 decision makes.
C10_EachCallAddsOneRecord ==
    [][(IsT0Call(last') /\ last'.ret.kind = "VP" /\ last'.volume > 0)
        => LET old == TargetVPs(accounts, last')
               new == TargetVPs(accounts', last')
           IN  /\ last'.ret.id \notin DOMAIN old
               /\ DOMAIN new = DOMAIN old \cup {last'.ret.id}
               /\ \A id \in DOMAIN old : new[id] = old[id]]_vars

\* C11: in every state the manager reaches, a sell-first or buy-first T0 call
\* that returns a VirtualPosition returns one whose profit_loss is
\* (sell_price - buy_price) * volume, for every volume and every pair of
\* prices.
C11_ProfitIsSpreadTimesVolume ==
    \A a \in Accounts, s \in Stocks, v \in Volumes,
       sell_price \in Prices, buy_price \in Prices, now \in Ticks :
        LET sf == execute_t0_sell_first(accounts, a, s, v, sell_price, buy_price, now)
            bf == execute_t0_buy_first(accounts, a, s, v, buy_price, sell_price, now)
        IN  /\ sf.ret.kind = "VP"
                 => sf.accounts[a].virtual_positions[sf.ret.id].profit_loss
                      = (sell_price - buy_price) * v
            /\ bf.ret.kind = "VP"
                 => bf.accounts[a].virtual_positions[bf.ret.id].profit_loss
                      = (sell_price - buy_price) * v

(***************************************************************************)
(* Properties of the ledger calculator                                     *)
(***************************************************************************)
\* the dictionary key a journalled or last call addressed
KeyOf(c) == get_state_key(c.account_id, c.stock_code)

\* the ledger of key k was seeded by an initialize_ledger call and that call
\* was followed by no clear and, on this key, by nothing but rolls
SeededThenRolled(log, k) ==
    \E i \in 1..Len(log) :
        /\ log[i].op = "initialize_ledger"
        /\ KeyOf(log[i]) = k
        /\ \A j \in (i + 1)..Len(log) :
              /\ log[j].op # "clear"
              /\ KeyOf(log[j]) = k => log[j].op = "roll"

\* C12: after initialize_ledger(seed) and any number of rolls of the same
\* ledger, a further roll leaves previous_ledger equal to the current_ledger
\* of before the roll and current_ledger equal to that value times the
\* roll's factor plus the roll's amount (the factor and amount the roll
\* stored).
C12_RollChainsFromCurrent ==
    [][(/\ last'.op = "roll"
        /\ last'.ret.kind = "State"
        /\ SeededThenRolled(journal, KeyOf(last')))
        => LET old == calculator.states[KeyOf(last')]
               new == calculator'.states[KeyOf(last')]
           IN  /\ new.previous_ledger = old.current_ledger
               /\ new.current_ledger =
                     old.current_ledger * new.adjustment_factor
                       + new.adjustment_amount]_vars

\* C13: right after every roll that returns, the stored state of its key has
\* current_ledger = previous_ledger * adjustment_factor + adjustment_amount,
\* and the roll appended one history entry that records these four values.
C13_RollStoresFormula ==
    [][(last'.op = "roll" /\ last'.ret.kind = "State")
        => LET new == calculator'.states[KeyOf(last')]
               before == HistoryOf(calculator, KeyOf(last'))
               after == HistoryOf(calculator', KeyOf(last'))
           IN  /\ new.current_ledger =
                     new.previous_ledger * new.adjustment_factor
                       + new.adjustment_amount
               /\ Len(after) = Len(before) + 1
               /\ after[Len(after)].previous_ledger = new.previous_ledger
               /\ after[Len(after)].adjustment_factor = new.adjustment_factor
               /\ after[Len(after)].adjustment_amount = new.adjustment_amount
               /\ after[Len(after)].current_ledger = new.current_ledger]_vars

\* a roll took its factor 2 from an event and added a nonzero amount to a
\* nonzero ledger
C13_Witness ==
    /\ last.op = "roll"
    /\ last.ret.kind = "State"
    /\ calculator.states[KeyOf(last)].previous_ledger # 0
    /\ calculator.states[KeyOf(last)].adjustment_factor = 2
    /\ calculator.states[KeyOf(last)].adjustment_amount # 0
    /\ Len(HistoryOf(calculator, KeyOf(last))) >= 1

\* the completed rolls of log that were called with the pair (a, s)
RollsOfPair(log, a, s) ==
    SelectSeq(log, LAMBDA c : c.op = "roll" /\ c.account_id = a /\ c.stock_code = s)

\* what each of a list of journalled rolls computed
Entries(calls) == [i \in 1..Len(calls) |-> calls[i].entry]

LastClear(log) ==
    IF \E i \in 1..Len(log) : log[i].op = "clear"
    THEN CHOOSE i \in 1..Len(log) :
            /\ log[i].op = "clear"
            /\ \A j \in (i + 1)..Len(log) : log[j].op # "clear"
    ELSE 0

\* the rolls completed after the last clear by calls whose arguments give key k
RollsOfKeySinceClear(log, k) ==
    SelectSeq(SubSeq(log, LastClear(log) + 1, Len(log)),
              LAMBDA c : c.op = "roll" /\ KeyOf(c) = k)

C15_RefusedRollChangesNothing ==
    [][(last'.op = "roll" /\ (last'.account_id = "" \/ last'.stock_code = ""))
        => (last'.ret.kind = "ValueError" /\ calculator' = calculator)]_vars

\* a roll with an empty stock_code was refused by a calculator that holds a
\* rolled ledger
C15_Witness ==
    /\ last.op = "roll"
    /\ last.account_id # ""
    /\ last.stock_code = ""
    /\ last.ret.kind = "ValueError"
    /\ \E k \in DOMAIN calculator.calculation_history :
          Len(calculator.calculation_history[k]) >= 1

\* C16: a roll, initialize_ledger or reset called for the pair (a, s) leaves
\* the state and the calculation history of every other pair of non-empty
\* identifiers as they were.
C16_KeysIndependent ==
    [][last'.op \in {"roll", "initialize_ledger", "reset"}
        => \A p \in KeyPairs :
              p # <<last'.account_id, last'.stock_code>>
                => /\ get_state(calculator', p[1], p[2])
                        = get_state(calculator, p[1], p[2])
                   /\ get_calculation_history(calculator', p[1], p[2])
                        = get_calculation_history(calculator, p[1], p[2])]_vars

\* C17: reset on a key that has a state sets previous_ledger, current_ledger
\* and adjustment_amount to 0, adjustment_factor to 1 and both dates to "",
\* and get_state still returns the entry; reset on a key that has no state
\* leaves the calculator as it was.
C17_ResetZeroesAndKeeps ==
    [][last'.op = "reset"
        => IF KeyOf(last') \in DOMAIN calculator.states
           THEN /\ DOMAIN calculator'.states = DOMAIN calculator.states
                /\ LET got == get_state(calculator', last'.account_id,
                                        last'.stock_code)
                   IN  /\ got # None
                       /\ got[1].previous_ledger = 0
                       /\ got[1].current_ledger = 0
                       /\ got[1].adjustment_amount = 0
                       /\ got[1].adjustment_factor = 1
                       /\ got[1].previous_date = ""
                       /\ got[1].current_date = ""
           ELSE calculator' = calculator]_vars

\* a ledger was reset right after a roll that left it nonzero with a factor
\* other than 1
C17_Witness ==
    /\ last.op = "reset"
    /\ KeyOf(last) \in DOMAIN calculator.states
    /\ Len(journal) >= 2
    /\ journal[Len(journal) - 1].op = "roll"
    /\ KeyOf(journal[Len(journal) - 1]) = KeyOf(last)
    /\ journal[Len(journal) - 1].entry.current_ledger # 0
    /\ journal[Len(journal) - 1].entry.adjustment_factor # 1

(***************************************************************************)
(* Properties of the quantity operations                                   *)
(***************************************************************************)
\* C18: on a holding with any available/frozen split, freeze(v) with
\* 0 < v <= available_volume succeeds and keeps total_volume; the
\* unfreeze(v) that follows it succeeds too and leaves available_volume and
\* frozen_volume at their values of before the freeze, total_volume still
\* unchanged.
C18_FreezeUnfreezeRestores ==
    round_trip # NoRoundTrip
      => LET before == round_trip[1].pos
             held == Target(accounts, last)
         IN  /\ last.ret = RetBool(TRUE)
             /\ held.total_volume = before.total_volume
             /\ round_trip[1].step = "frozen"
                  => /\ last.op = "freeze"
                     /\ held.available_volume + last.volume = before.available_volume
             /\ round_trip[1].step = "restored"
                  => /\ last.op = "unfreeze"
                     /\ held.available_volume = before.available_volume
                     /\ held.frozen_volume = before.frozen_volume

\* one share of a holding that has shares available and shares frozen was
\* frozen and then unfrozen
C18_Witness ==
    /\ round_trip # NoRoundTrip
    /\ round_trip[1].step = "restored"
    /\ last.op = "unfreeze"
    /\ last.volume = 1
    /\ round_trip[1].pos.frozen_volume > 0
    /\ round_trip[1].pos.available_volume > 0

\* C19: freeze(v) with v <= 0 or v > available_volume, unfreeze(v) with
\* v <= 0 or v > frozen_volume, reduce(v) with v <= 0 or v > available_volume
\* and increase(v, p) with v <= 0 return False and leave every field of the
\* RealPosition as it was; with any other argument they return True.  None
\* of them raises.
C19_FailureIsFalseAndNoChange ==
    [][last'.op \in {"freeze", "unfreeze", "reduce", "increase"}
        => LET p == Target(accounts, last')
               v == last'.volume
               refused ==
                   CASE last'.op = "freeze" -> v <= 0 \/ v > p.available_volume
                     [] last'.op = "unfreeze" -> v <= 0 \/ v > p.frozen_volume
                     [] last'.op = "reduce" -> v <= 0 \/ v > p.available_volume
                     [] last'.op = "increase" -> v <= 0
           IN  /\ last'.ret.kind = "Bool"
               /\ refused => (~last'.ret.ok /\ accounts' = accounts)
               /\ ~refused => last'.ret.ok]_vars

\* a reduce of two shares was refused on a holding with one share available
C19_Witness ==
    /\ last.op = "reduce"
    /\ last.ret = RetBool(FALSE)
    /\ last.volume = 2
    /\ Target(accounts, last).available_volume = 1

(***************************************************************************)
(* Properties of the loader                                                *)
(***************************************************************************)
\* C20: load_from_cctj given a feed of n records completes and returns n,
\* and afterwards the manager holds, for each record's account and stock, a
\* RealPosition with the volumes and prices of the last record of the feed
\* for that account and stock, the account created if it was not known.
C20_LoadTakesEveryRecord ==
    [][last'.op = "load_from_cctj"
        => /\ last'.ret = RetInt(Len(last'.feed))
           /\ \A i \in 1..Len(last'.feed) :
                 LET r == last'.feed[i]
                 IN  (\A j \in (i + 1)..Len(last'.feed) :
                         \/ last'.feed[j].account_id # r.account_id
                         \/ last'.feed[j].stock_code # r.stock_code)
                       => /\ HasPosition(accounts', r.account_id, r.stock_code)
                          /\ LET p == get_position(accounts', r.account_id,
                                                   r.stock_code)
                             IN  /\ p.total_volume = r.total_volume
                                 /\ p.available_volume = r.available_volume
                                 /\ p.frozen_volume = r.frozen_volume
                                 /\ p.yesterday_volume = r.yesterday_volume
                                 /\ p.today_volume = r.today_volume
                                 /\ p.cost_price = RatOfInt(r.cost_price)
                                 /\ p.current_price = r.current_price]_vars

(***************************************************************************)
(* Properties of the factor a roll uses                                    *)
(***************************************************************************)
RECURSIVE FactorProduct(_)
FactorProduct(events) ==
    IF events = <<>> THEN 1
    ELSE Head(events).adjustment_factor * FactorProduct(Tail(events))

\* the factor the contract names for a call
FactorOfCall(adjustment_factor, events) ==
    IF adjustment_factor # None THEN adjustment_factor[1]
    ELSE IF events # <<>> THEN FactorProduct(events)
    ELSE 1

\* C22: whatever the calculator holds, events stored with
\* add_adjustment_event included, a roll stores and applies the explicit
\* adjustment_factor when one is given (0 too, and with events passed as
\* well), else the product of the factors of the events passed to the call,
\* else 1.
C22_RollUsesFactorOfCall ==
    \A p \in ChainKeyed, adjustment_factor \in EventFactors,
       adjustment_amount \in KeySeeds, events \in PassedEvents,
       today \in Todays :
       LET k == get_state_key(p[1], p[2])
           before == get_or_create_state(calculator, p[1], p[2]).states[k]
           carried == IF before.current_ledger # 0
                      THEN before.current_ledger
                      ELSE before.previous_ledger
           r == roll(calculator, p[1], p[2], adjustment_factor,
                     adjustment_amount, "", events, today)
           after == r.calculator.states[k]
           f == FactorOfCall(adjustment_factor, events)
       IN  /\ r.ret = RetState
           /\ after.adjustment_factor = f
           /\ after.current_ledger = carried * f + adjustment_amount
           /\ r.calculator.adjustment_history = calculator.adjustment_history

\* a roll took the product 6 of two passed events while an event of factor 5
\* was stored for the same security
C22_Witness ==
    /\ last.op = "roll"
    /\ last.ret = RetState
    /\ get_adjustment_history(calculator, "C") # <<>>
    /\ calculator.states[get_state_key("A", "C")].adjustment_factor = 6

(***************************************************************************)
(* Properties of concurrent callers                                        *)
(***************************************************************************)
AllDone == \A t \in DOMAIN threads : threads[t].pc = "done"

\* C26: when two execute_t0_sell_first calls, or one and a freeze or an
\* unfreeze, on the same holding have run interleaved and all have
\* completed, total_volume is what the holding was installed with, no volume
\* is negative and available_volume + frozen_volume <= total_volume.
C26_T0AppearsAtomic ==
    (threads # NoThreads /\ AllDone)
      => /\ Held.total_volume = journal[1].args[1].total_volume
         /\ VolumesConsistent(Held)

(***************************************************************************)
(* Properties of a VirtualPosition that is opened once                     *)
(***************************************************************************)
IsClose(c) == c.op \in {"close_partial", "close_all"}

\* the profit a close handed back to its caller; a call that raised handed
\* back none
ProfitReturned(c) == IF c.ret.kind = "Float" THEN c.ret.num ELSE 0

\* C30: on a VirtualPosition opened once with a positive volume, every
\* close_partial or close_all call adds the profit it returns to profit_loss
\* and, when it accepts its volume (0 < volume <= remaining_volume), adds
\* that volume to closed_volume, so that both are the sums over the calls;
\* and after every call status is CLOSED exactly when remaining_volume is 0.
C30_ClosesAddUp ==
    [][IsClose(last')
        => /\ vp'.profit_loss = vp.profit_loss + ProfitReturned(last')
           /\ vp'.closed_volume =
                 vp.closed_volume
                   + (IF 0 < last'.volume /\ last'.volume <= remaining_volume(vp)
                      THEN last'.volume ELSE 0)
           /\ vp'.status = "CLOSED" <=> remaining_volume(vp') = 0]_vars

(***************************************************************************)
(* Properties of a close that is turned down                               *)
(***************************************************************************)
\* C31: a close_partial with volume <= 0 or volume > remaining_volume, and a
\* close_all on a VirtualPosition whose remaining_volume is 0 (a never
\* opened one included), returns 0 and leaves every field of the
\* VirtualPosition, closed_volume, close_price, profit_loss, profit_rate and
\* status among them, as it was.
C31_RefusedCloseChangesNothing ==
    [][(\/ /\ last'.op = "close_partial"
           /\ \/ last'.volume <= 0
              \/ last'.volume > remaining_volume(vp)
        \/ /\ last'.op = "close_all"
           /\ remaining_volume(vp) = 0)
        => /\ last'.ret = RetFloat(0)
           /\ vp' = vp]_vars

\* a close_all at another price was turned down on a VirtualPosition that
\* had been closed in full
C31_Witness ==
    /\ last.op = "close_all"
    /\ last.volume = 0
    /\ last.ret = RetFloat(0)
    /\ vp.open_volume > 0
    /\ vp.closed_volume = vp.open_volume
    /\ vp.status = "CLOSED"

(***************************************************************************)
(* Properties of the manager's look-ups                                    *)
(***************************************************************************)
\* what the contract says can be sold of holding p
Sellable(p) == IF p.status = "FROZEN" THEN 0 ELSE p.available_volume

\* C32: get_sellable_volume changes nothing and returns 0 for an unknown
\* account or instrument and else 0 for a FROZEN holding, whatever its
\* available_volume, and available_volume for any other; and
\* execute_t0_sell_first with a positive volume on a FROZEN holding returns
\* None and changes nothing.
C32_FrozenSellsNothing ==
    [][/\ last'.op = "get_sellable_volume"
          => /\ accounts' = accounts
             /\ last'.ret = RetInt(IF TargetHeld(accounts, last')
                                    THEN Sellable(Target(accounts, last'))
                                    ELSE 0)
       /\ (/\ last'.op = "execute_t0_sell_first"
           /\ last'.volume > 0
           /\ TargetHeld(accounts, last')
           /\ Target(accounts, last').status = "FROZEN")
          => /\ accounts' = accounts
             /\ last'.ret = RetNone]_vars

\* a sell-first T0 of shares that are all available was turned down on a
\* FROZEN holding
C32_Witness ==
    /\ last.op = "execute_t0_sell_first"
    /\ last.ret = RetNone
    /\ last.volume > 0
    /\ TargetHeld(accounts, last)
    /\ Target(accounts, last).status = "FROZEN"
    /\ Target(accounts, last).available_volume >= last.volume

IsLookUp(c) == c.op \in {"get_account", "get_position", "get_sellable_volume"}

\* C33: a T0 call of either kind for an unknown account or an instrument the
\* account does not hold returns None and changes nothing; get_account,
\* get_position and get_sellable_volume change nothing; no call other than
\* get_or_create_account and load_from_cctj adds an account; and
\* get_or_create_account of a known id changes nothing and returns the
\* entry the manager has, with its positions.
C33_OnlyGetOrCreateAddsAccounts ==
    [][/\ (IsT0Call(last') /\ ~TargetHeld(accounts, last'))
          => /\ last'.ret = RetNone
             /\ accounts' = accounts
       /\ IsLookUp(last') => accounts' = accounts
       /\ DOMAIN accounts' # DOMAIN accounts
          => last'.op \in {"get_or_create_account", "load_from_cctj"}
       /\ (/\ last'.op = "get_or_create_account"
           /\ last'.account_id \in DOMAIN accounts)
          => /\ accounts' = accounts
             /\ last'.ret = RetObject("Account", accounts[last'.account_id])]_vars

\* a buy-first T0 for an account the manager does not know was turned down
\* by a manager that has another account with a holding
C33_Witness ==
    /\ last.op = "execute_t0_buy_first"
    /\ last.ret = RetNone
    /\ last.account_id \notin DOMAIN accounts
    /\ accounts # EmptyMap
    /\ \E a \in DOMAIN accounts : DOMAIN accounts[a].positions # {}

\* the sell-first call c got past the look-ups and the sellable-volume test
PassedSellableTest(accts, c) ==
    /\ c.op = "execute_t0_sell_first"
    /\ TargetHeld(accts, c)
    /\ c.volume <= sellable_volume(Target(accts, c))

\* C35: in a sell-first T0 call that got past the sellable-volume test the
\* reduce and the increase of the holding are both applied, when the volume
\* is positive, or both turned down, when it is not: the shares leave
\* available_volume exactly when they come back in today_volume.
C35_BothLegsOrNeither ==
    [][PassedSellableTest(accounts, last')
       => /\ (Target(accounts', last').available_volume
                 = Target(accounts, last').available_volume - last'.volume
               /\ last'.volume > 0)
             <=> (Target(accounts', last').today_volume
                    = Target(accounts, last').today_volume + last'.volume
                  /\ last'.volume > 0)
          /\ last'.volume <= 0
             => Target(accounts', last') = Target(accounts, last')]_vars

\* the holding as update_price of stock_code at price leaves it
Repriced(pos, s, stock_code, price) ==
    IF s = stock_code THEN [pos EXCEPT !.current_price = price] ELSE pos

\* C34: update_price(instrument, price) sets current_price to price on the
\* holding of that instrument in every account that has one and changes
\* nothing else: holdings of other instruments, every other field of the
\* repriced holdings, the virtual positions and the sets of accounts and of
\* holdings stay as they were.
C34_UpdatePriceSetsPriceOnly ==
    [][last'.op = "update_price"
       => /\ DOMAIN accounts' = DOMAIN accounts
          /\ \A a \in DOMAIN accounts :
                /\ DOMAIN accounts'[a].positions = DOMAIN accounts[a].positions
                /\ \A s \in DOMAIN accounts[a].positions :
                      accounts'[a].positions[s]
                          = Repriced(accounts[a].positions[s], s,
                                     last'.stock_code, last'.args[1])
                /\ [accounts'[a] EXCEPT !.positions = accounts[a].positions]
                       = accounts[a]
          /\ vp' = vp]_vars

\* two accounts hold S1, one of them also holds S2, and a price other than
\* the one they had was given for S1
C34_Witness ==
    /\ last.op = "update_price"
    /\ last.stock_code = "S1"
    /\ \E a, b \in DOMAIN accounts :
          /\ a # b
          /\ HasPosition(accounts, a, "S1")
          /\ HasPosition(accounts, b, "S1")
          /\ HasPosition(accounts, a, "S2")
          /\ accounts[a].positions["S1"].current_price = last.args[1]
          /\ accounts[b].positions["S1"].current_price = last.args[1]
          /\ accounts[a].positions["S2"].current_price # last.args[1]

(***************************************************************************)
(* Properties of the calculator's queries and of its event store           *)
(***************************************************************************)
LedgerQueries == {"get_state", "get_current_ledger", "get_all_states",
                  "get_calculation_history", "get_adjustment_history"}

\* C36: get_state, get_current_ledger, get_all_states,
\* get_calculation_history and get_adjustment_history leave the calculator
\* as it was, so they store no state and no history list; for a key without
\* state get_state returns None and get_current_ledger returns 0, and for a
\* key or an instrument without history the history queries return an empty
\* list.
C36_QueriesReadOnly ==
    [][last'.op \in LedgerQueries
       => /\ calculator' = calculator
          /\ (last'.op = "get_state" /\ KeyOf(last') \notin DOMAIN calculator.states)
             => last'.ret = RetNone
          /\ (/\ last'.op = "get_current_ledger"
              /\ KeyOf(last') \notin DOMAIN calculator.states)
             => last'.ret = RetFloat(0)
          /\ (/\ last'.op = "get_calculation_history"
              /\ KeyOf(last') \notin DOMAIN calculator.calculation_history)
             => last'.ret = RetObject("List", <<>>)
          /\ (/\ last'.op = "get_adjustment_history"
              /\ last'.stock_code \notin DOMAIN calculator.adjustment_history)
             => last'.ret = RetObject("List", <<>>)]_vars

\* get_current_ledger of a key without state returned 0 from a calculator
\* that keeps a state, a calculation history and an event history of
\* another key, and did not store a state for the key it was asked
C36_Witness ==
    /\ last.op = "get_current_ledger"
    /\ last.ret = RetFloat(0)
    /\ KeyOf(last) \notin DOMAIN calculator.states
    /\ calculator.states # EmptyMap
    /\ calculator.calculation_history # EmptyMap
    /\ calculator.adjustment_history # EmptyMap

\* C38: add_adjustment_event puts the event at the end of the list of its
\* stock_code, after the events stored before it, in their order, leaves
\* the lists of the other instruments, the states and the calculation
\* history as they were; roll, initialize_ledger and reset leave the
\* adjustment history as it was.
C38_EventsAppendOnly ==
    [][/\ last'.op = "add_adjustment_event"
          => /\ calculator'.adjustment_history
                  = Put(calculator.adjustment_history, last'.stock_code,
                        Append(get_adjustment_history(calculator,
                                                      last'.stock_code),
                               last'.args[1]))
             /\ last'.args[1].stock_code = last'.stock_code
             /\ calculator'.states = calculator.states
             /\ calculator'.calculation_history = calculator.calculation_history
       /\ last'.op \in {"roll", "initialize_ledger", "reset"}
          => calculator'.adjustment_history = calculator.adjustment_history]_vars

\* a second, different event of C was stored after the first, beside a
\* ledger that has a state and a calculation history
C38_Witness ==
    /\ last.op = "add_adjustment_event"
    /\ Len(get_adjustment_history(calculator, "C")) = 2
    /\ get_adjustment_history(calculator, "C")[2] = last.args[1]
    /\ get_adjustment_history(calculator, "C")[1] # last.args[1]
    /\ calculator.states # EmptyMap
    /\ calculator.calculation_history # EmptyMap

StartsWith(longer, shorter) ==
    /\ Len(shorter) <= Len(longer)
    /\ SubSeq(longer, 1, Len(shorter)) = shorter

\* C37: initialize_ledger and reset leave the calculation history as it
\* was; only clear removes entries, every other call leaves the history of
\* each key in place as the start of the history it has afterwards; and a
\* roll that goes through adds its one entry after those of the earlier
\* rolls of its key.
C37_HistoryOutlivesSeedAndReset ==
    [][/\ last'.op \in {"initialize_ledger", "reset"}
          => calculator'.calculation_history = calculator.calculation_history
       /\ last'.op # "clear"
          => \A k \in DOMAIN calculator.calculation_history :
                StartsWith(HistoryOf(calculator', k), HistoryOf(calculator, k))
       /\ (last'.op = "roll" /\ last'.ret.kind = "State")
          => LET k == KeyOf(last')
             IN  /\ Len(HistoryOf(calculator', k))
                       = Len(HistoryOf(calculator, k)) + 1
                 /\ StartsWith(HistoryOf(calculator', k),
                               HistoryOf(calculator, k))]_vars

\* a ledger was rolled, then seeded again or reset, then rolled again, and
\* its history holds the entry of the first roll followed by that of the
\* second
C37_Witness ==
    /\ Len(journal) = 3
    /\ journal[1].op = "roll"
    /\ journal[2].op \in {"initialize_ledger", "reset"}
    /\ journal[3].op = "roll"
    /\ last.op = "roll"
    /\ HistoryOf(calculator, KeyOf(last)) = <<journal[1].entry, journal[3].entry>>

\* C39: a roll that goes through on a key that has no state, because none
\* was made or because clear removed it, or on a key that was reset by the
\* call before, ends with previous_ledger 0 and current_ledger equal to the
\* adjustment_amount it was given, whatever factor it used.
C39_FirstRollBooksAmount ==
    [][(/\ last'.op = "roll"
        /\ last'.ret.kind = "State"
        /\ \/ KeyOf(last') \notin DOMAIN calculator.states
           \/ last.op = "reset" /\ KeyOf(last) = KeyOf(last'))
       => LET state == calculator'.states[KeyOf(last')]
          IN  /\ state.previous_ledger = 0
              /\ state.current_ledger = state.adjustment_amount]_vars

\* a ledger seeded or rolled, then reset, then rolled with a factor other
\* than 0 and an amount other than 0 stands at that amount
C39_Witness ==
    /\ Len(journal) = 3
    /\ journal[1].op \in {"initialize_ledger", "roll"}
    /\ journal[2].op = "reset"
    /\ journal[3].op = "roll"
    /\ last.op = "roll"
    /\ last.ret.kind = "State"
    /\ LET state == calculator.states[KeyOf(last)]
       IN  /\ state.adjustment_factor # 0
           /\ state.adjustment_amount # 0
           /\ state.current_ledger = state.adjustment_amount

(***************************************************************************)
(* Properties of a day of sell-first T0 calls                              *)
(***************************************************************************)
\* the sell-first calls of log that went through with a positive volume
WentThrough(log) ==
    SelectSeq(log, LAMBDA c : /\ c.op = "execute_t0_sell_first"
                              /\ c.ret.kind = "VP"
                              /\ c.volume > 0)

RECURSIVE TotalVolume(_)
TotalVolume(calls) ==
    IF calls = <<>> THEN 0 ELSE Head(calls).volume + TotalVolume(Tail(calls))

\* a sell-first T0 of a positive volume that went through took the volume
\* off available_volume, left frozen_volume and added it to today_volume
SellFirstUsesUpAvailable ==
    (/\ last'.op = "execute_t0_sell_first"
     /\ last'.ret.kind = "VP"
     /\ last'.volume > 0)
      => LET old == Target(accounts, last')
             new == Target(accounts', last')
         IN  /\ new.available_volume = old.available_volume - last'.volume
             /\ new.frozen_volume = old.frozen_volume
             /\ new.today_volume = old.today_volume + last'.volume

\* C29: a sell-first T0 of volume v > 0 that goes through lowers
\* available_volume by v, leaves frozen_volume and raises today_volume by v;
\* on a day without unfreeze or reload the volumes of the sell-first calls
\* that went through sum to at most the available_volume the holding was
\* installed with; and once only repeats of the latest call remain, a call
\* that went through is followed by a repeat that returns None.
C29_SellFirstRunsOutOfShares ==
    /\ [][SellFirstUsesUpAvailable]_vars
    /\ [](TotalVolume(WentThrough(journal))
            <= journal[1].args[1].available_volume)
    /\ ((LatestWentThrough /\ nops = MaxOps)
          ~> (journal[Len(journal)].ret = RetNone))

\* a call of volume 1 went through twice on a holding installed with two
\* shares available, and its next repeat was turned down
C29_Witness ==
    /\ Len(journal) >= 4
    /\ journal[1].args[1].available_volume = 2
    /\ TotalVolume(WentThrough(journal)) = 2
    /\ last.op = "execute_t0_sell_first"
    /\ last.volume = 1
    /\ last.ret = RetNone

(***************************************************************************)
(* Properties of what increase and reduce touch                            *)
(***************************************************************************)
\* C27: on every holding the manager reaches, increase(v, p) with v > 0
\* returns True, adds v to total_volume and to today_volume, leaves
\* available_volume, frozen_volume and yesterday_volume as they were, and
\* leaves a cost_amount that is the old cost_amount plus v * p.
C27_IncreaseBooksCostOnly ==
    \A a \in DOMAIN accounts : \A s \in DOMAIN accounts[a].positions :
    \A volume \in Volumes, price \in Prices :
        volume > 0
          => LET old == accounts[a].positions[s]
                 r == increase(old, volume, price)
                 was == cost_amount(old)
             IN  /\ r.ok
                 /\ r.pos.total_volume = old.total_volume + volume
                 /\ r.pos.today_volume = old.today_volume + volume
                 /\ r.pos.available_volume = old.available_volume
                 /\ r.pos.frozen_volume = old.frozen_volume
                 /\ r.pos.yesterday_volume = old.yesterday_volume
                 /\ cost_amount(r.pos)
                      = Rat(was[1] + volume * price * was[2], was[2])

\* an increase at a price below the cost price went through on a holding
\* that has shares, and lowered the cost price
C27_Witness ==
    /\ last.op = "increase"
    /\ last.ret = RetBool(TRUE)
    /\ last.volume > 0
    /\ Target(accounts, last).total_volume > last.volume
    /\ Target(accounts, last).today_volume = last.volume
    /\ Target(accounts, last).cost_price # RatOfInt(1)

\* C28: a reduce(v) with 0 < v <= available_volume returns True whatever the
\* status of the position, FROZEN included, takes v off total_volume and
\* available_volume and leaves every other field as it was, so that
\* cost_amount becomes (total_volume - v) * cost_price.
C28_ReduceTakesFromTotalAndAvailable ==
    [][(/\ last'.op = "reduce"
        /\ TargetHeld(accounts, last')
        /\ 0 < last'.volume
        /\ last'.volume <= Target(accounts, last').available_volume)
        => LET old == Target(accounts, last')
               new == Target(accounts', last')
           IN  /\ last'.ret = RetBool(TRUE)
               /\ new = [old EXCEPT
                            !.total_volume = @ - last'.volume,
                            !.available_volume = @ - last'.volume]
               /\ cost_amount(new)
                    = RatMul(RatOfInt(old.total_volume - last'.volume),
                             old.cost_price)]_vars

\* a reduce went through on a FROZEN position
C28_Witness ==
    /\ last.op = "reduce"
    /\ last.ret = RetBool(TRUE)
    /\ last.volume > 0
    /\ Target(accounts, last).status = "FROZEN"
    /\ Target(accounts, last).total_volume > 0

(***************************************************************************)
(* Properties of the shift a roll makes                                    *)
(***************************************************************************)
\* the state a roll of the key of call c finds, or creates, in calc
StateFound(calc, c) ==
    get_or_create_state(calc, c.account_id, c.stock_code).states[KeyOf(c)]

C23_SeedReplacesState ==
    \A p \in ChainKeyed, initial_ledger \in Seeds, trade_date \in SeedDates,
       today \in Todays :
       LET k == get_state_key(p[1], p[2])
           seeded == initialize_ledger(calculator, p[1], p[2], initial_ledger,
                                       trade_date, today)
       IN  /\ k \in DOMAIN seeded.states
           /\ seeded.states[k].previous_ledger = initial_ledger
           /\ seeded.states[k].current_ledger = initial_ledger
           /\ seeded.states[k].adjustment_factor = 1
           /\ seeded.states[k].adjustment_amount = 0
           /\ \A adjustment_factor \in Factors, adjustment_amount \in Amounts :
                 roll(seeded, p[1], p[2], adjustment_factor, adjustment_amount,
                      "", None, today).calculator.states[k].current_ledger
                   = initial_ledger * FactorOfCall(adjustment_factor, None)
                       + adjustment_amount

\* a ledger that a roll had left with a factor other than 1 and a nonzero
\* value was seeded, and then rolled again
C23_Witness ==
    /\ Len(journal) = 3
    /\ journal[1].op = "roll"
    /\ journal[1].entry.adjustment_factor # 1
    /\ journal[1].entry.current_ledger # 0
    /\ journal[2].op = "initialize_ledger"
    /\ journal[3].op = "roll"
    /\ \A i \in 1..3 : journal[i].account_id = "A" /\ journal[i].stock_code = "C"

(***************************************************************************)
(* Properties of the adjustment calculations                               *)
(***************************************************************************)
\* C21: calculate_adjustment_amount returns
\* dividend_per_share * total_shares + special_adjustment for every
\* combination of the three, zero and negative values included, whatever
\* previous_ledger is.
C21_AmountIsDividendPlusSpecial ==
    last.op = "calculate_adjustment_amount"
      => last.ret = RetFloat(last.args[2] * last.args[3] + last.args[4])

\* the arguments of calculate_adjustment_factor after dividend_per_share, at
\* their defaults
FactorDefaults == <<0, 0, 0, 1, 0>>

\* C24: the factor calculate_adjustment_factor returned is the factor it
\* returns for every other dividend_per_share with the same five other
\* arguments, and with those five at their defaults it is exactly 1.
C24_FactorIgnoresDividend ==
    last.op = "calculate_adjustment_factor"
      => /\ \A dividend_per_share \in Dividends :
               RetFloat(calculate_adjustment_factor(dividend_per_share,
                   last.args[2], last.args[3], last.args[4], last.args[5],
                   last.args[6])) = last.ret
         /\ SubSeq(last.args, 2, 6) = FactorDefaults
               => last.ret = RetFloat(RatOfInt(1))

\* a call with a dividend, a price and a split returned a factor other than 1
C24_Witness ==
    /\ last.op = "calculate_adjustment_factor"
    /\ last.args[1] > 0
    /\ last.args[6] > 0
    /\ last.ret # RetFloat(RatOfInt(1))

====
